---- MODULE Spec2Model ----
(***************************************************************************)
(* Model of the cache engine of @timeax/cache-store                        *)
(* (src/src/cache/create-cache.ts, with the TTL policy of ttl.ts).         *)
(*                                                                         *)
(* Keys and prefixes are strings, modelled as sequences of characters so   *)
(* that String.startsWith is computed, not assumed.  A CacheEntry is a     *)
(* record [value, createdAt, ttlMs]; the optional ttlMs is <<>> when it is *)
(* undefined and <<n>> when it is the number n.  The mirror is a JS Map:   *)
(* a sequence of [key, entry] rows in insertion order.                     *)
(*                                                                         *)
(* Every public operation is one action.  Its helpers are operators that   *)
(* take the engine state as a record s and return the record after the     *)
(* helper ran; s.exc names an exception that is propagating, and a helper  *)
(* whose caller is unwinding does nothing.                                 *)
(***************************************************************************)
EXTENDS Integers, Sequences, FiniteSets, TLC

\* ------------------------------------------------------------------ bounds
\* Largest clock value (Date.now() is unbounded).
MaxNow == 2
\* Deepest nesting of batch() calls.
MaxDepth == 2
\* Most fetcher invocations started by getOrSetAsync in one run.
MaxFetches == 2
\* Most callers awaiting one fetch.
MaxWaiters == 2

\* ------------------------------------------------------------ input domains
Keys == {<<"a">>, <<"a", "b">>}
Prefixes == {<<"a">>, <<"a", "b">>}
\* keys() / clear() called without a prefix (or with "", which is falsy).
NoPrefix == <<>>
Values == {"v1", "v2"}
Undefined == "undefined"
\* ttlMs arguments: omitted, 0 (<= 0), and a positive duration.
TtlArgs == {<<>>, <<0>>, <<2>>}
\* Listener callbacks; the ones in Throwers throw whenever they are invoked.
Cbs == {"f", "g"}
Throwers == {"g"}

NoEntry == [absent |-> TRUE]
NoExc == "none"

VARIABLES
    now,              \* Date.now()
    mirror,           \* Map<CacheKey, CacheEntry>, rows in insertion order
    allKeysCache,     \* {keys, valid}
    prefixKeysCache,  \* Map<string, KeyListCache>
    keyListeners,     \* Map<CacheKey, Set<CacheListener>>
    prefixListeners,  \* Map<string, Set<CacheKeyListener>>, in insertion order
    allListeners,     \* Set<CacheKeyListener>, in insertion order
    readyListeners,   \* Set<CacheListener>, in insertion order
    batchDepth,
    pendingKeys,      \* Set<CacheKey>, in insertion order
    pendingReadyEmit,
    ready,
    readyP,           \* state of the readiness promise
    inFlight,         \* Map<CacheKey, Promise>: key -> index into fetches
    fetches,          \* the fills started by getOrSetAsync, oldest first
    driverCaps,       \* the optional bulk operations the driver offers
    handles,          \* the unsubscribe functions returned so far
    changed,          \* keys changed or emitted since the outermost batch began
    emitted,          \* emitNow(key) calls made by the last operation
    delivered,        \* listener invocations made by the last operation
    observed,         \* what each of these listeners could read when invoked
    driverOps,        \* driver calls issued by the last operation
    driverWrite,      \* outcome of the most recent fire-and-forget driver call
    raised,           \* exception that reached the caller of the last operation
    returned,         \* value the last getOrSetAsync call returned without a fetch
    posted            \* messages the last operation posted to the BroadcastChannel

cacheVars == <<mirror, allKeysCache, prefixKeysCache>>
listenerVars == <<keyListeners, prefixListeners, allListeners, readyListeners, handles>>
batchVars == <<batchDepth, pendingKeys, pendingReadyEmit>>
readyVars == <<ready, readyP>>
asyncVars == <<inFlight, fetches>>
logVars == <<changed, emitted, delivered, observed, driverOps, driverWrite, raised,
            returned, posted>>
vars == <<now, driverCaps, cacheVars, listenerVars, batchVars, readyVars, asyncVars, logVars>>

\* ----------------------------------------------------------------- strings
\* String.prototype.startsWith
StartsWith(k, p) == Len(p) <= Len(k) /\ SubSeq(k, 1, Len(p)) = p

\* ------------------------------------------------------------------ Map ops
MirrorHas(m, k) == \E i \in 1..Len(m) : m[i].key = k
MirrorGet(m, k) ==
    IF MirrorHas(m, k) THEN m[CHOOSE i \in 1..Len(m) : m[i].key = k].entry ELSE NoEntry
MirrorSet(m, k, e) ==
    IF MirrorHas(m, k)
    THEN [i \in 1..Len(m) |-> IF m[i].key = k THEN [key |-> k, entry |-> e] ELSE m[i]]
    ELSE Append(m, [key |-> k, entry |-> e])
MirrorDelete(m, k) == SelectSeq(m, LAMBDA r : r.key # k)
MirrorKeys(m) == {m[i].key : i \in 1..Len(m)}

\* Set.prototype.add / delete on an insertion-ordered set
SetAdd(q, x) == IF \E i \in 1..Len(q) : q[i] = x THEN q ELSE Append(q, x)
SetDelete(q, x) == SelectSeq(q, LAMBDA y : y # x)
Range(q) == {q[i] : i \in 1..Len(q)}

\* --------------------------------------------------------------------- ttl
makeEntry(value, ttlMs) == [value |-> value, createdAt |-> now, ttlMs |-> ttlMs]

isAliveStale(e) ==
    IF e = NoEntry THEN FALSE
    ELSE IF e.ttlMs = <<>> \/ e.ttlMs[1] = 0 THEN TRUE
    ELSE now - e.createdAt <= e.ttlMs[1]

isAlive(e) ==
    IF e = NoEntry THEN FALSE
    ELSE IF e.ttlMs = <<>> \/ e.ttlMs[1] = 0 THEN TRUE
    ELSE now - e.createdAt < e.ttlMs[1]


\* ------------------------------------------------- engine state of one call
\* The engine state an operation works on: the variables it may change, the
\* logs of what it did, and dthrow: whether the driver throws synchronously
\* when it is called (instead of returning a promise).
Begin(dthrow) ==
    [mirror |-> mirror, all |-> allKeysCache, pfx |-> prefixKeysCache,
     pend |-> pendingKeys, emt |-> <<>>, dlv |-> <<>>, dops |-> <<>>,
     exc |-> NoExc, dthrow |-> dthrow, ready |-> ready, obs |-> <<>>,
     ret |-> Undefined, post |-> <<>>]

\* ------------------------------------------------------------- listeners
callListener(s, cb, kind, args) ==
    LET t == [s EXCEPT !.dlv = Append(@, [cb |-> cb, kind |-> kind, args |-> args]),
                       !.obs = Append(@, [mirror |-> s.mirror, ready |-> s.ready])]
    IN IF cb \in Throwers THEN [t EXCEPT !.exc = "listener"] ELSE t

\* safeCall without its try/catch.
safeCallUncaught(s, cb, kind, args) == callListener(s, cb, kind, args)

safeCall(s, cb, kind, args) ==
    LET t == callListener(s, cb, kind, args)
    IN IF t.exc # NoExc THEN [t EXCEPT !.exc = NoExc] ELSE t

\* for (const cb of Array.from(set)) safeCall(...)
RECURSIVE callAll(_, _, _, _, _)
callAll(s, cbs, i, kind, args) ==
    IF i > Len(cbs) \/ s.exc # NoExc THEN s
    ELSE callAll(safeCall(s, cbs[i], kind, args), cbs, i + 1, kind, args)

RECURSIVE callPrefixListeners(_, _, _)
callPrefixListeners(s, key, i) ==
    IF i > Len(prefixListeners) \/ s.exc # NoExc THEN s
    ELSE IF ~StartsWith(key, prefixListeners[i].prefix)
         THEN callPrefixListeners(s, key, i + 1)
         ELSE callPrefixListeners(
                  callAll(s, prefixListeners[i].cbs, 1, "prefix", <<key>>), key, i + 1)

\* emitNow delivering to the global listeners first.
emitNowAllFirst(s, key) ==
    LET s0 == [s EXCEPT !.emt = Append(@, key)]
        s1 == callAll(s0, allListeners, 1, "all", <<key>>)
        s2 == callPrefixListeners(s1, key, 1)
    IN IF key \in DOMAIN keyListeners
       THEN callAll(s2, keyListeners[key], 1, "key", <<>>) ELSE s2

emitNow(s, key) ==
    LET s0 == [s EXCEPT !.emt = Append(@, key)]
        s1 == IF key \in DOMAIN keyListeners
              THEN callAll(s0, keyListeners[key], 1, "key", <<>>) ELSE s0
        s2 == callPrefixListeners(s1, key, 1)
    IN callAll(s2, allListeners, 1, "all", <<key>>)

emitReadyNow(s) == callAll(s, readyListeners, 1, "ready", <<>>)

\* queueEmitKey with pendingKeys kept as a list (no de-duplication).
queueEmitKeyList(s, key) ==
    IF s.exc # NoExc THEN s
    ELSE IF batchDepth > 0 THEN [s EXCEPT !.pend = Append(@, key)]
    ELSE emitNow(s, key)

queueEmitKey(s, key) ==
    IF s.exc # NoExc THEN s
    ELSE IF batchDepth > 0 THEN [s EXCEPT !.pend = SetAdd(@, key)]
    ELSE emitNow(s, key)

\* ------------------------------------------------------ key-list caches
invalidateAllKeysCache(s) ==
    IF s.exc # NoExc THEN s ELSE [s EXCEPT !.all.valid = FALSE]

invalidatePrefixCachesForKey(s, key) ==
    IF s.exc # NoExc THEN s
    ELSE [s EXCEPT !.pfx = [p \in DOMAIN s.pfx |->
              IF StartsWith(key, p) THEN [s.pfx[p] EXCEPT !.valid = FALSE]
              ELSE s.pfx[p]]]

invalidatePrefixCache(s, prefix) ==
    IF s.exc # NoExc THEN s
    ELSE IF prefix \in DOMAIN s.pfx THEN [s EXCEPT !.pfx[prefix].valid = FALSE]
    ELSE s

\* invalidateKeyCachesForMutation forgetting the per-prefix caches.
invalidateOnlyAllKeys(s, key) == invalidateAllKeysCache(s)

invalidateKeyCachesForMutation(s, key) ==
    invalidatePrefixCachesForKey(invalidateAllKeysCache(s), key)

\* ----------------------------------------------------------------- driver
\* A call of a driver method.  A driver that throws synchronously unwinds
\* the caller; otherwise the call returns a promise whose rejection is
\* swallowed by .catch(() => {}).
driverCall(s, call) ==
    IF s.exc # NoExc THEN s
    ELSE IF s.dthrow THEN [s EXCEPT !.exc = "driver"]
    ELSE [s EXCEPT !.dops = Append(@, call)]

RECURSIVE driverRemoveEach(_, _, _)
driverRemoveEach(s, ks, i) ==
    IF i > Len(ks) \/ s.exc # NoExc THEN s
    ELSE driverRemoveEach(driverCall(s, [op |-> "remove", key |-> ks[i]]), ks, i + 1)

mirrorDelete(s, key) ==
    IF s.exc # NoExc THEN s ELSE [s EXCEPT !.mirror = MirrorDelete(@, key)]

mirrorSet(s, key, entry) ==
    IF s.exc # NoExc THEN s ELSE [s EXCEPT !.mirror = MirrorSet(@, key, entry)]

\* dropKey notifying the key it evicts.
dropKeyEmits(s, key) ==
    queueEmitKey(invalidateKeyCachesForMutation(
        driverCall(mirrorDelete(s, key), [op |-> "remove", key |-> key]), key), key)

\* dropKey leaving the key-list caches as they are.
dropKeyKeepsCaches(s, key) ==
    IF s.exc # NoExc THEN s
    ELSE driverCall(mirrorDelete(s, key), [op |-> "remove", key |-> key])

dropKey(s, key) ==
    invalidateKeyCachesForMutation(
        driverCall(mirrorDelete(s, key), [op |-> "remove", key |-> key]), key)

\* pruneIfDead: the state after it and whether it returned true.
pruneIfDead(s, key, e) ==
    IF e = NoEntry THEN [s |-> s, dead |-> TRUE]
    ELSE IF isAlive(e) THEN [s |-> s, dead |-> FALSE]
    ELSE [s |-> dropKey(s, key), dead |-> TRUE]

\* setInternal notifying before it changes the mirror.
setInternalEmitFirst(s, key, entry) ==
    IF entry = NoEntry \/ (entry.ttlMs # <<>> /\ entry.ttlMs[1] <= 0)
    THEN invalidateKeyCachesForMutation(
             driverCall(mirrorDelete(queueEmitKey(s, key), key),
                        [op |-> "remove", key |-> key]), key)
    ELSE invalidateKeyCachesForMutation(
             driverCall(mirrorSet(queueEmitKey(s, key), key, entry),
                        [op |-> "set", key |-> key, entry |-> entry]), key)

\* setInternal storing an entry whatever its ttlMs.
setInternalStoresNonPositive(s, key, entry) ==
    IF entry = NoEntry
    THEN queueEmitKey(invalidateKeyCachesForMutation(
             driverCall(mirrorDelete(s, key), [op |-> "remove", key |-> key]), key), key)
    ELSE queueEmitKey(invalidateKeyCachesForMutation(
             driverCall(mirrorSet(s, key, entry),
                        [op |-> "set", key |-> key, entry |-> entry]), key), key)

\* setInternal that persists without writing the mirror.
setInternalNoMirror(s, key, entry) ==
    queueEmitKey(invalidateKeyCachesForMutation(
        driverCall(s, [op |-> "set", key |-> key, entry |-> entry]), key), key)

setInternal(s, key, entry) ==
    IF entry = NoEntry \/ (entry.ttlMs # <<>> /\ entry.ttlMs[1] <= 0)
    THEN queueEmitKey(invalidateKeyCachesForMutation(
             driverCall(mirrorDelete(s, key), [op |-> "remove", key |-> key]), key), key)
    ELSE queueEmitKey(invalidateKeyCachesForMutation(
             driverCall(mirrorSet(s, key, entry),
                        [op |-> "set", key |-> key, entry |-> entry]), key), key)

\* getEntry: the state after it and the entry it returned (NoEntry: undefined).
getEntry(s, key) ==
    LET e == MirrorGet(s.mirror, key)
    IN IF e = NoEntry THEN [s |-> s, e |-> NoEntry]
       ELSE LET r == pruneIfDead(s, key, e)
            IN [s |-> r.s, e |-> IF r.dead THEN NoEntry ELSE e]


\* ------------------------------------------------------------------ keys()
\* pruneListInPlace: the state after it and the list, which is the cached
\* array itself (entries are overwritten in place, then it is truncated).
\* pruneListInPlace filling the place of a dead key with the last key of
\* the list (swap-remove).
RECURSIVE pruneLoopSwapRemove(_, _, _, _)
pruneLoopSwapRemove(s, list, read, write) ==
    IF s.exc # NoExc \/ read > Len(list) THEN [s |-> s, list |-> list]
    ELSE LET k == list[read]
             e == MirrorGet(s.mirror, k)
             n == Len(list)
         IN IF e = NoEntry \/ ~isAlive(e)
            THEN pruneLoopSwapRemove(
                     IF e # NoEntry THEN dropKey(s, k)
                     ELSE invalidateKeyCachesForMutation(s, k),
                     IF read = n THEN SubSeq(list, 1, n - 1)
                     ELSE [SubSeq(list, 1, n - 1) EXCEPT ![read] = list[n]],
                     read, write)
            ELSE pruneLoopSwapRemove(s, list, read + 1, write)

RECURSIVE pruneLoop(_, _, _, _)
pruneLoop(s, list, read, write) ==
    IF s.exc # NoExc THEN [s |-> s, list |-> list]
    ELSE IF read > Len(list) THEN [s |-> s, list |-> SubSeq(list, 1, write)]
    ELSE LET k == list[read]
             e == MirrorGet(s.mirror, k)
         IN IF e = NoEntry \/ ~isAlive(e)
            THEN pruneLoop(IF e # NoEntry THEN dropKey(s, k)
                           ELSE invalidateKeyCachesForMutation(s, k),
                           list, read + 1, write)
            ELSE pruneLoop(s, [list EXCEPT ![write + 1] = k], read + 1, write + 1)

pruneListInPlace(s, list) == pruneLoop(s, list, 1, 0)

\* computeKeysForPrefix: the state after it and the list it built, scanning
\* a snapshot of the mirror's rows.
RECURSIVE computeLoop(_, _, _, _, _)
computeLoop(s, rows, i, prefix, out) ==
    IF s.exc # NoExc \/ i > Len(rows) THEN [s |-> s, out |-> out]
    ELSE IF prefix # NoPrefix /\ ~StartsWith(rows[i].key, prefix)
         THEN computeLoop(s, rows, i + 1, prefix, out)
    ELSE IF ~isAlive(rows[i].entry)
         THEN computeLoop(dropKey(s, rows[i].key), rows, i + 1, prefix, out)
    ELSE computeLoop(s, rows, i + 1, prefix, Append(out, rows[i].key))

computeKeysForPrefix(s, prefix) == computeLoop(s, s.mirror, 1, prefix, <<>>)

\* getCachedKeys: the state after it and the list it returned.
getCachedKeys(s, prefix) ==
    IF s.exc # NoExc THEN [s |-> s, keys |-> <<>>]
    ELSE IF prefix = NoPrefix
    THEN IF ~s.all.valid
         THEN LET r == computeKeysForPrefix(s, NoPrefix)
              IN IF r.s.exc # NoExc THEN [s |-> r.s, keys |-> <<>>]
                 ELSE [s |-> [r.s EXCEPT !.all = [keys |-> r.out, valid |-> TRUE]],
                       keys |-> r.out]
         ELSE LET r == pruneListInPlace(s, s.all.keys)
              IN [s |-> [r.s EXCEPT !.all.keys = r.list], keys |-> r.list]
    ELSE LET s0 == IF prefix \in DOMAIN s.pfx THEN s
                   ELSE [s EXCEPT !.pfx = @ @@ (prefix :> [keys |-> <<>>, valid |-> FALSE])]
         IN IF ~s0.pfx[prefix].valid
            THEN LET r == computeKeysForPrefix(s0, prefix)
                 IN IF r.s.exc # NoExc THEN [s |-> r.s, keys |-> <<>>]
                    ELSE [s |-> [r.s EXCEPT !.pfx[prefix] = [keys |-> r.out, valid |-> TRUE]],
                          keys |-> r.out]
            ELSE LET r == pruneListInPlace(s0, s0.pfx[prefix].keys)
                 IN [s |-> [r.s EXCEPT !.pfx[prefix].keys = r.list], keys |-> r.list]

\* ------------------------------------------------------------------ clear()
RECURSIVE mirrorDeleteEach(_, _, _)
mirrorDeleteEach(s, ks, i) ==
    IF i > Len(ks) \/ s.exc # NoExc THEN s
    ELSE mirrorDeleteEach(mirrorDelete(s, ks[i]), ks, i + 1)

RECURSIVE queueEmitEach(_, _, _)
queueEmitEach(s, ks, i) ==
    IF i > Len(ks) \/ s.exc # NoExc THEN s
    ELSE queueEmitEach(queueEmitKey(s, ks[i]), ks, i + 1)

RECURSIVE invalidatePrefixCachesForEach(_, _, _)
invalidatePrefixCachesForEach(s, ks, i) ==
    IF i > Len(ks) \/ s.exc # NoExc THEN s
    ELSE invalidatePrefixCachesForEach(invalidatePrefixCachesForKey(s, ks[i]), ks, i + 1)

\* The hydration leaving the key-list caches as they are.
invalidateNothing(s) == s

invalidateEverything(s) ==
    IF s.exc # NoExc THEN s
    ELSE [s EXCEPT !.all.valid = FALSE,
                   !.pfx = [p \in DOMAIN s.pfx |-> [s.pfx[p] EXCEPT !.valid = FALSE]]]

\* clear() notifying every key of the mirror, expired ones included.
clearAllEmitsExpired(s) ==
    LET allRows == [i \in DOMAIN s.mirror |-> s.mirror[i].key]
        r == getCachedKeys(s, NoPrefix)
        ks == r.keys
        s1 == IF "removeMany" \in driverCaps
              THEN driverCall(r.s, [op |-> "removeMany", keys |-> ks])
              ELSE driverRemoveEach(r.s, ks, 1)
        s2 == mirrorDeleteEach(s1, ks, 1)
        s3 == invalidateEverything(s2)
    IN queueEmitEach(s3, allRows, 1)

clearAll(s) ==
    LET r == getCachedKeys(s, NoPrefix)
        ks == r.keys
        s1 == IF "removeMany" \in driverCaps
              THEN driverCall(r.s, [op |-> "removeMany", keys |-> ks])
              ELSE driverRemoveEach(r.s, ks, 1)
        s2 == mirrorDeleteEach(s1, ks, 1)
        s3 == invalidateEverything(s2)
    IN queueEmitEach(s3, ks, 1)

\* clear(prefix) taking its keys from keys() instead of keys(prefix).
clearPrefixTakesAllKeys(s, prefix) ==
    LET r == getCachedKeys(s, NoPrefix)
        ks == r.keys
        s1 == mirrorDeleteEach(r.s, ks, 1)
        s2 == IF "clearPrefix" \in driverCaps
              THEN driverCall(s1, [op |-> "clearPrefix", prefix |-> prefix])
              ELSE IF "removeMany" \in driverCaps
              THEN driverCall(s1, [op |-> "removeMany", keys |-> ks])
              ELSE driverRemoveEach(s1, ks, 1)
        s3 == invalidatePrefixCache(invalidateAllKeysCache(s2), prefix)
        s4 == invalidatePrefixCachesForEach(s3, ks, 1)
    IN queueEmitEach(s4, ks, 1)

clearPrefix(s, prefix) ==
    LET r == getCachedKeys(s, prefix)
        ks == r.keys
        s1 == mirrorDeleteEach(r.s, ks, 1)
        s2 == IF "clearPrefix" \in driverCaps
              THEN driverCall(s1, [op |-> "clearPrefix", prefix |-> prefix])
              ELSE IF "removeMany" \in driverCaps
              THEN driverCall(s1, [op |-> "removeMany", keys |-> ks])
              ELSE driverRemoveEach(s1, ks, 1)
        s3 == invalidatePrefixCache(invalidateAllKeysCache(s2), prefix)
        s4 == invalidatePrefixCachesForEach(s3, ks, 1)
    IN queueEmitEach(s4, ks, 1)

clear(s, prefix) == IF prefix = NoPrefix THEN clearAll(s) ELSE clearPrefix(s, prefix)


\* ------------------------------------------------- what the claims refer to
\* Liveness of an entry as the specification words it (TTL policy).
SpecLive(e) ==
    e # NoEntry /\ (e.ttlMs = <<>> \/ e.ttlMs[1] = 0 \/ now - e.createdAt < e.ttlMs[1])

\* The keys of the mirror that are live now and start with prefix.
LiveKeys(m, prefix) ==
    {k \in MirrorKeys(m) : SpecLive(MirrorGet(m, k)) /\ StartsWith(k, prefix)}

\* The keys field of a cache that is not valid is dead data: getCachedKeys
\* assigns c.keys before it reads it, and nothing else reads it.  The model
\* keeps <<>> for it.
forgetDeadList(c) == IF c.valid THEN c ELSE [keys |-> <<>>, valid |-> FALSE]
forgetDeadLists(pfx) == [p \in DOMAIN pfx |-> forgetDeadList(pfx[p])]

\* --------------------------------------------------------------- operations
\* The end of a public operation: the engine state it leaves, its logs, and
\* the keys it changed (recorded while a batch is open).
Commit(s, touched) ==
    /\ mirror' = s.mirror
    /\ allKeysCache' = forgetDeadList(s.all)
    /\ prefixKeysCache' = forgetDeadLists(s.pfx)
    /\ pendingKeys' = s.pend
    /\ emitted' = s.emt
    /\ delivered' = s.dlv
    /\ observed' = s.obs
    /\ returned' = s.ret
    /\ posted' = s.post
    /\ driverOps' = s.dops
    /\ driverWrite' = IF s.dops # <<>> THEN "pending" ELSE driverWrite
    /\ raised' = s.exc
    /\ changed' = IF batchDepth > 0 THEN changed \cup touched ELSE {}
    /\ ready' = s.ready
    /\ UNCHANGED <<now, driverCaps, listenerVars, batchDepth, pendingReadyEmit,
                   readyP>>

Get(key, dthrow) ==
    /\ Commit(getEntry(Begin(dthrow), key).s, {})
    /\ UNCHANGED asyncVars

Has(key, dthrow) ==
    /\ Commit(getEntry(Begin(dthrow), key).s, {})
    /\ UNCHANGED asyncVars

Meta(key, dthrow) ==
    /\ Commit(getEntry(Begin(dthrow), key).s, {})
    /\ UNCHANGED asyncVars

Set(key, value, ttlMs, dthrow) ==
    /\ Commit(setInternal(Begin(dthrow), key, makeEntry(value, ttlMs)), {key})
    /\ UNCHANGED asyncVars

\* update(key, updater, ttlMs); next is the value updater(prev) returns.
Update(key, next, ttlMs, dthrow) ==
    /\ Commit(setInternal(getEntry(Begin(dthrow), key).s, key, makeEntry(next, ttlMs)),
              {key})
    /\ UNCHANGED asyncVars

\* update handing undefined to the updater whatever the key holds.
UpdateWithIgnoresCurrent(key, updater, ttlMs) ==
    /\ Commit(setInternal(getEntry(Begin(FALSE), key).s, key,
                          makeEntry(updater[Undefined], ttlMs)), {key})
    /\ UNCHANGED asyncVars

\* update(key, updater, ttlMs) with the updater as a function of prev:
\* prev = this.get(key); next = updater(prev); this.set(key, next, ttlMs).
UpdateWith(key, updater, ttlMs) ==
    LET r == getEntry(Begin(FALSE), key)
        prev == IF r.e = NoEntry THEN Undefined ELSE r.e.value
        next == updater[prev]
    IN /\ Commit(setInternal(r.s, key, makeEntry(next, ttlMs)), {key})
       /\ UNCHANGED asyncVars

Remove(key, dthrow) ==
    /\ Commit(setInternal(Begin(dthrow), key, NoEntry), {key})
    /\ UNCHANGED asyncVars

KeysOp(prefix, dthrow) ==
    /\ Commit(getCachedKeys(Begin(dthrow), prefix).s, {})
    /\ UNCHANGED asyncVars

Clear(prefix, dthrow) ==
    /\ Commit(clear(Begin(dthrow), prefix), LiveKeys(mirror, prefix))
    /\ UNCHANGED asyncVars

\* touch keeping the createdAt of the entry it rewrites.
touchKeepsCreatedAt(s, key, ttlMs) ==
    LET r == getEntry(s, key)
    IN IF r.e = NoEntry THEN r.s
       ELSE setInternal(r.s, key,
                [value |-> r.e.value, createdAt |-> r.e.createdAt,
                 ttlMs |-> IF ttlMs = <<>> THEN r.e.ttlMs ELSE ttlMs])

touch(s, key, ttlMs) ==
    LET r == getEntry(s, key)
    IN IF r.e = NoEntry THEN r.s
       ELSE setInternal(r.s, key,
                [value |-> r.e.value, createdAt |-> now,
                 ttlMs |-> IF ttlMs = <<>> THEN r.e.ttlMs ELSE ttlMs])

Touch(key, ttlMs, dthrow) ==
    /\ Commit(touch(Begin(dthrow), key, ttlMs),
              IF SpecLive(MirrorGet(mirror, key)) THEN {key} ELSE {})
    /\ UNCHANGED asyncVars

\* emit implemented as a rewrite of the entry the key holds.
EmitRewrites(key) ==
    /\ Commit(touch(Begin(FALSE), key, <<>>), {key})
    /\ UNCHANGED asyncVars

Emit(key) ==
    /\ Commit(queueEmitKey(Begin(FALSE), key), {key})
    /\ UNCHANGED asyncVars

\* The clock advances.
Tick ==
    /\ now < MaxNow
    /\ now' = now + 1
    /\ UNCHANGED <<driverCaps, cacheVars, listenerVars, batchVars, readyVars, asyncVars,
                   logVars>>

\* A rejected driver call marking the instance not ready.
DriverSettleUnready(outcome) ==
    /\ batchDepth = 0
    /\ driverWrite = "pending"
    /\ driverWrite' = outcome
    /\ ready' = (ready /\ outcome = "ok")
    /\ UNCHANGED <<now, driverCaps, cacheVars, listenerVars, batchVars, readyP,
                   asyncVars, changed, emitted, delivered, observed, driverOps, raised,
                   returned, posted>>

\* The promise of the most recent fire-and-forget driver call settles; its
\* rejection is swallowed by .catch(() => {}).
DriverSettle(outcome) ==
    /\ batchDepth = 0
    /\ driverWrite = "pending"
    /\ driverWrite' = outcome
    /\ UNCHANGED <<now, driverCaps, cacheVars, listenerVars, batchVars, readyVars,
                   asyncVars, changed, emitted, delivered, observed, driverOps, raised,
                   returned, posted>>


\* ------------------------------------------------------------ subscriptions
\* A subscribe or unsubscribe call invokes no listener and no driver method.
QuietOp ==
    /\ emitted' = <<>>
    /\ delivered' = <<>>
    /\ observed' = <<>>
    /\ returned' = Undefined
    /\ posted' = <<>>
    /\ driverOps' = <<>>
    /\ raised' = NoExc
    /\ changed' = IF batchDepth > 0 THEN changed ELSE {}
    /\ UNCHANGED <<now, driverCaps, cacheVars, batchVars, readyVars, asyncVars,
                   driverWrite>>

Handle(kind, target, cb) == [kind |-> kind, target |-> target, cb |-> cb]

PrefixIndex(prefix) ==
    IF \E i \in 1..Len(prefixListeners) : prefixListeners[i].prefix = prefix
    THEN CHOOSE i \in 1..Len(prefixListeners) : prefixListeners[i].prefix = prefix
    ELSE 0

SubscribeKey(key, cb) ==
    /\ keyListeners' =
           IF key \in DOMAIN keyListeners
           THEN [keyListeners EXCEPT ![key] = SetAdd(@, cb)]
           ELSE keyListeners @@ (key :> <<cb>>)
    /\ handles' = handles \cup {Handle("key", key, cb)}
    /\ UNCHANGED <<prefixListeners, allListeners, readyListeners>>
    /\ QuietOp

\* An unsubscribe function that removes the last listener of the key when its
\* own callback is no longer registered.
keyUnsubscribePops(kl, key, cb) ==
    IF key \notin DOMAIN kl THEN kl
    ELSE LET q == IF cb \in Range(kl[key]) THEN SetDelete(kl[key], cb)
                  ELSE SubSeq(kl[key], 1, Len(kl[key]) - 1)
         IN IF q = <<>>
            THEN [k \in DOMAIN kl \ {key} |-> kl[k]]
            ELSE [kl EXCEPT ![key] = q]

\* The function subscribeKey returns, on the registry kl: s.delete(cb), and
\* the key's set is dropped when it is left empty.
keyUnsubscribe(kl, key, cb) ==
    IF key \notin DOMAIN kl THEN kl
    ELSE IF SetDelete(kl[key], cb) = <<>>
    THEN [k \in DOMAIN kl \ {key} |-> kl[k]]
    ELSE [kl EXCEPT ![key] = SetDelete(@, cb)]

UnsubscribeKey(key, cb) ==
    /\ Handle("key", key, cb) \in handles
    /\ keyListeners' = keyUnsubscribe(keyListeners, key, cb)
    /\ UNCHANGED <<prefixListeners, allListeners, readyListeners, handles>>
    /\ QuietOp

SubscribePrefix(prefix, cb) ==
    /\ prefixListeners' =
           IF PrefixIndex(prefix) # 0
           THEN [prefixListeners EXCEPT ![PrefixIndex(prefix)].cbs = SetAdd(@, cb)]
           ELSE Append(prefixListeners, [prefix |-> prefix, cbs |-> <<cb>>])
    /\ handles' = handles \cup {Handle("prefix", prefix, cb)}
    /\ UNCHANGED <<keyListeners, allListeners, readyListeners>>
    /\ QuietOp

\* The function subscribePrefix returns, on the registry pl.
prefixUnsubscribe(pl, prefix, cb) ==
    LET i == IF \E j \in 1..Len(pl) : pl[j].prefix = prefix
             THEN CHOOSE j \in 1..Len(pl) : pl[j].prefix = prefix
             ELSE 0
    IN IF i = 0 THEN pl
       ELSE IF SetDelete(pl[i].cbs, cb) = <<>>
       THEN SelectSeq(pl, LAMBDA r : r.prefix # prefix)
       ELSE [pl EXCEPT ![i].cbs = SetDelete(@, cb)]

UnsubscribePrefix(prefix, cb) ==
    /\ Handle("prefix", prefix, cb) \in handles
    /\ prefixListeners' = prefixUnsubscribe(prefixListeners, prefix, cb)
    /\ UNCHANGED <<keyListeners, allListeners, readyListeners, handles>>
    /\ QuietOp

SubscribeAll(cb) ==
    /\ allListeners' = SetAdd(allListeners, cb)
    /\ handles' = handles \cup {Handle("all", <<>>, cb)}
    /\ UNCHANGED <<keyListeners, prefixListeners, readyListeners>>
    /\ QuietOp

UnsubscribeAll(cb) ==
    /\ Handle("all", <<>>, cb) \in handles
    /\ allListeners' = SetDelete(allListeners, cb)
    /\ UNCHANGED <<keyListeners, prefixListeners, readyListeners, handles>>
    /\ QuietOp

SubscribeReady(cb) ==
    /\ readyListeners' = SetAdd(readyListeners, cb)
    /\ handles' = handles \cup {Handle("ready", <<>>, cb)}
    /\ UNCHANGED <<keyListeners, prefixListeners, allListeners>>
    /\ QuietOp

UnsubscribeReady(cb) ==
    /\ Handle("ready", <<>>, cb) \in handles
    /\ readyListeners' = SetDelete(readyListeners, cb)
    /\ UNCHANGED <<keyListeners, prefixListeners, allListeners, handles>>
    /\ QuietOp

\* -------------------------------------------------------------------- batch
\* batch(fn) is entered: batchDepth++ and fn starts to run.  The operations
\* fn performs are the actions taken until the matching BatchEnd.
BatchBegin ==
    /\ batchDepth < MaxDepth
    /\ batchDepth' = batchDepth + 1
    /\ emitted' = <<>>
    /\ delivered' = <<>>
    /\ observed' = <<>>
    /\ returned' = Undefined
    /\ posted' = <<>>
    /\ driverOps' = <<>>
    /\ raised' = NoExc
    /\ changed' = IF batchDepth = 0 THEN {} ELSE changed
    /\ UNCHANGED <<now, driverCaps, cacheVars, listenerVars, pendingKeys,
                   pendingReadyEmit, readyVars, asyncVars, driverWrite>>

RECURSIVE emitEach(_, _, _)
emitEach(s, ks, i) ==
    IF i > Len(ks) \/ s.exc # NoExc THEN s
    ELSE emitEach(emitNow(s, ks[i]), ks, i + 1)

\* The body of batch's finally block once batchDepth is back to 0.
flush(s) == emitEach([s EXCEPT !.pend = <<>>], s.pend, 1)

\* A finally block that flushes at the end of every batch, nested or not.
BatchEndFlushesAlways(fnThrows) ==
    /\ batchDepth > 0
    /\ batchDepth' = batchDepth - 1
    /\ LET s1 == flush(Begin(FALSE))
       IN /\ mirror' = s1.mirror
          /\ allKeysCache' = s1.all
          /\ prefixKeysCache' = s1.pfx
          /\ pendingKeys' = s1.pend
          /\ emitted' = s1.emt
          /\ delivered' = s1.dlv
          /\ observed' = s1.obs
          /\ returned' = Undefined
          /\ posted' = <<>>
          /\ driverOps' = s1.dops
          /\ raised' = IF s1.exc # NoExc THEN s1.exc ELSE IF fnThrows THEN "fn" ELSE NoExc
    /\ UNCHANGED <<now, driverCaps, listenerVars, readyVars, asyncVars, driverWrite,
                   changed, pendingReadyEmit>>

\* batch without try/finally: a throwing fn skips the decrement and the flush.
BatchEndNoFinally(fnThrows) ==
    /\ batchDepth > 0
    /\ batchDepth' = IF fnThrows THEN batchDepth ELSE batchDepth - 1
    /\ LET s0 == Begin(FALSE)
           s1 == IF batchDepth - 1 = 0 /\ ~fnThrows THEN flush(s0) ELSE s0
       IN /\ mirror' = s1.mirror
          /\ allKeysCache' = s1.all
          /\ prefixKeysCache' = s1.pfx
          /\ pendingKeys' = s1.pend
          /\ emitted' = s1.emt
          /\ delivered' = s1.dlv
          /\ observed' = s1.obs
          /\ returned' = Undefined
          /\ posted' = <<>>
          /\ driverOps' = s1.dops
          /\ raised' = IF s1.exc # NoExc THEN s1.exc ELSE IF fnThrows THEN "fn" ELSE NoExc
    /\ UNCHANGED <<now, driverCaps, listenerVars, readyVars, asyncVars, driverWrite,
                   changed, pendingReadyEmit>>

\* fn returned (or threw, fnThrows) and batch's finally block runs.
BatchEnd(fnThrows) ==
    /\ batchDepth > 0
    /\ batchDepth' = batchDepth - 1
    /\ LET s0 == Begin(FALSE)
           s1 == IF batchDepth - 1 = 0 THEN flush(s0) ELSE s0
           s2 == IF batchDepth - 1 = 0 /\ pendingReadyEmit /\ s1.exc = NoExc
                 THEN emitReadyNow(s1) ELSE s1
       IN /\ mirror' = s2.mirror
          /\ allKeysCache' = s2.all
          /\ prefixKeysCache' = s2.pfx
          /\ pendingKeys' = s2.pend
          /\ emitted' = s2.emt
          /\ delivered' = s2.dlv
          /\ observed' = s2.obs
          /\ returned' = Undefined
          /\ posted' = <<>>
          /\ driverOps' = s2.dops
          /\ raised' = IF s2.exc # NoExc THEN s2.exc ELSE IF fnThrows THEN "fn" ELSE NoExc
          /\ pendingReadyEmit' =
                 IF batchDepth - 1 = 0 /\ s1.exc = NoExc THEN FALSE ELSE pendingReadyEmit
    /\ UNCHANGED <<now, driverCaps, listenerVars, readyVars, asyncVars, driverWrite,
                   changed>>


\* ------------------------------------------------------------ getOrSetAsync
MapDelete(f, k) == [x \in DOMAIN f \ {k} |-> f[x]]

\* The in-flight check skipped for calls with force: true.
joinsExistingUnlessForced(key, force) == ~force /\ key \in DOMAIN inFlight

\* const existing = inFlight.get(key); if (existing) return existing
joinsExisting(key, force) == key \in DOMAIN inFlight

\* A failed fill evicting the key.
onFetchFailureEvicts(s, key) == setInternal(s, key, NoEntry)

\* What the fill does with the engine state when the fetcher fails: the
\* try block is left before this.set, and finally touches inFlight only.
onFetchFailure(s, key) == s

\* getOrSetAsync going to the fetcher without looking at the cached value.
GetOrSetAsyncAlwaysFetches(key, ttlMs, force, fthrows, dthrow) ==
    LET s0 == Begin(dthrow)
    IN /\ Commit(s0, {})
       /\ IF joinsExisting(key, force)
          THEN /\ fetches[inFlight[key]].waiters < MaxWaiters
               /\ fetches' = [fetches EXCEPT ![inFlight[key]].waiters = @ + 1]
               /\ UNCHANGED inFlight
          ELSE /\ Len(fetches) < MaxFetches
               /\ fetches' = Append(fetches,
                      [key |-> key, ttlMs |-> ttlMs, waiters |-> 1, value |-> Undefined,
                       status |-> IF fthrows THEN "rejected" ELSE "pending"])
               /\ inFlight' = MapDelete(inFlight, key) @@ (key :> Len(fetches) + 1)

\* getOrSetAsync(key, fetcher, {ttlMs, force}).  fthrows: the fetcher throws
\* when it is called, before its first suspension.
GetOrSetAsync(key, ttlMs, force, fthrows, dthrow) ==
    LET s0 == Begin(dthrow)
        r == IF force THEN [s |-> s0, e |-> NoEntry] ELSE getEntry(s0, key)
        \* const cached = this.get(key); if (cached !== undefined) return cached
        cached == IF r.e = NoEntry THEN Undefined ELSE r.e.value
    IN /\ Commit([r.s EXCEPT !.ret = IF r.s.exc = NoExc THEN cached ELSE Undefined], {})
       /\ IF r.s.exc # NoExc \/ cached # Undefined
          THEN UNCHANGED asyncVars
          ELSE IF joinsExisting(key, force)
          THEN /\ fetches[inFlight[key]].waiters < MaxWaiters
               /\ fetches' = [fetches EXCEPT ![inFlight[key]].waiters = @ + 1]
               /\ UNCHANGED inFlight
          ELSE /\ Len(fetches) < MaxFetches
               /\ fetches' = Append(fetches,
                      [key |-> key, ttlMs |-> ttlMs, waiters |-> 1, value |-> Undefined,
                       status |-> IF fthrows THEN "rejected" ELSE "pending"])
               \* a fetcher that throws at once: finally runs inFlight.delete(key)
               \* first, and inFlight.set(key, p) after it
               /\ inFlight' = MapDelete(inFlight, key) @@ (key :> Len(fetches) + 1)

\* The fill storing its result only when the key holds nothing.
FetchResolveKeepsExisting(i, value, dthrow) ==
    /\ batchDepth = 0
    /\ i \in 1..Len(fetches)
    /\ fetches[i].status = "pending"
    /\ LET s0 == Begin(dthrow)
           s == IF MirrorHas(s0.mirror, fetches[i].key) THEN s0
                ELSE setInternal(s0, fetches[i].key, makeEntry(value, fetches[i].ttlMs))
       IN /\ Commit([s EXCEPT !.exc = NoExc], {})
          /\ fetches' = [fetches EXCEPT
                 ![i].status = IF s.exc = NoExc THEN "resolved" ELSE "rejected",
                 ![i].value = IF s.exc = NoExc THEN value ELSE Undefined]
    /\ inFlight' = MapDelete(inFlight, fetches[i].key)

\* The fetcher of fill i resolves with value: this.set, then finally.
FetchResolve(i, value, dthrow) ==
    /\ batchDepth = 0
    /\ i \in 1..Len(fetches)
    /\ fetches[i].status = "pending"
    /\ LET s == setInternal(Begin(dthrow), fetches[i].key,
                            makeEntry(value, fetches[i].ttlMs))
       IN /\ Commit([s EXCEPT !.exc = NoExc], {})
          /\ fetches' = [fetches EXCEPT
                 ![i].status = IF s.exc = NoExc THEN "resolved" ELSE "rejected",
                 ![i].value = IF s.exc = NoExc THEN value ELSE Undefined]
    /\ inFlight' = MapDelete(inFlight, fetches[i].key)

\* The fetcher of fill i rejects: finally.
FetchReject(i) ==
    /\ batchDepth = 0
    /\ i \in 1..Len(fetches)
    /\ fetches[i].status = "pending"
    /\ Commit(onFetchFailure(Begin(FALSE), fetches[i].key), {})
    /\ fetches' = [fetches EXCEPT ![i].status = "rejected"]
    /\ inFlight' = MapDelete(inFlight, fetches[i].key)

\* ---------------------------------------------------------------- hydration
\* Entries a driver may hold from an earlier session.
DriverEntries ==
    {[value |-> "v1", createdAt |-> 0, ttlMs |-> <<>>],
     [value |-> "v2", createdAt |-> 0, ttlMs |-> <<2>>]}

\* The rows the hydration reads: one row per key driver.keys() listed,
\* with the entry or null (NoEntry).
HydrationRows ==
    {<<>>} \cup
    {<<[key |-> k, entry |-> e]>> : k \in Keys, e \in DriverEntries \cup {NoEntry}} \cup
    UNION {{<<[key |-> k1, entry |-> e1], [key |-> k2, entry |-> e2]>> :
               k2 \in Keys \ {k1}, e1 \in DriverEntries, e2 \in DriverEntries} :
           k1 \in Keys}

\* The loop skipping expired rows without collecting them in toDelete.
RECURSIVE installRowsForgetsExpired(_, _, _, _, _)
installRowsForgetsExpired(m, rows, i, cleanup, toDelete) ==
    IF i > Len(rows) THEN [mirror |-> m, toDelete |-> toDelete]
    ELSE IF rows[i].entry = NoEntry \/ (cleanup /\ ~isAlive(rows[i].entry))
         THEN installRowsForgetsExpired(m, rows, i + 1, cleanup, toDelete)
    ELSE installRowsForgetsExpired(MirrorSet(m, rows[i].key, rows[i].entry), rows, i + 1,
                                   cleanup, toDelete)

\* The loop run inside store.batch: the mirror and toDelete after it.
RECURSIVE installRows(_, _, _, _, _)
installRows(m, rows, i, cleanup, toDelete) ==
    IF i > Len(rows) THEN [mirror |-> m, toDelete |-> toDelete]
    ELSE IF rows[i].entry = NoEntry
         THEN installRows(m, rows, i + 1, cleanup, toDelete)
    ELSE IF cleanup /\ ~isAlive(rows[i].entry)
         THEN installRows(m, rows, i + 1, cleanup, Append(toDelete, rows[i].key))
    ELSE installRows(MirrorSet(m, rows[i].key, rows[i].entry), rows, i + 1, cleanup,
                     toDelete)

\* The hydration signalling readiness before it installs the rows.
HydrateInstallReadyFirst(rows, cleanup, dthrow) ==
    /\ ~ready
    /\ readyP = "pending"
    /\ batchDepth = 0
    /\ LET s0 == emitReadyNow([Begin(dthrow) EXCEPT !.ready = TRUE])
           r == installRows(s0.mirror, rows, 1, cleanup, <<>>)
           s1 == [s0 EXCEPT !.mirror = r.mirror]
           s2 == IF ~(cleanup /\ Len(r.toDelete) > 0) THEN s1
                 ELSE IF "removeMany" \in driverCaps
                 THEN driverCall(s1, [op |-> "removeMany", keys |-> r.toDelete])
                 ELSE driverRemoveEach(s1, r.toDelete, 1)
           s4 == invalidateEverything(s2)
       IN /\ mirror' = s4.mirror
          /\ allKeysCache' = forgetDeadList(s4.all)
          /\ prefixKeysCache' = forgetDeadLists(s4.pfx)
          /\ emitted' = s4.emt
          /\ delivered' = s4.dlv
          /\ observed' = s4.obs
          /\ returned' = Undefined
          /\ posted' = <<>>
          /\ driverOps' = s4.dops
          /\ driverWrite' = IF s4.dops # <<>> THEN "pending" ELSE driverWrite
          /\ readyP' = IF s2.exc = NoExc THEN "resolved" ELSE "rejected"
    /\ ready' = TRUE
    /\ raised' = NoExc
    /\ changed' = {}
    /\ UNCHANGED <<now, driverCaps, listenerVars, batchVars, asyncVars>>

\* The hydration notifying the keys of the rows it installs.
HydrateInstallNotifies(rows, cleanup, dthrow) ==
    /\ ~ready
    /\ readyP = "pending"
    /\ batchDepth = 0
    /\ LET s0 == Begin(dthrow)
           r == installRows(s0.mirror, rows, 1, cleanup, <<>>)
           s1 == [s0 EXCEPT !.mirror = r.mirror]
           s2 == IF ~(cleanup /\ Len(r.toDelete) > 0) THEN s1
                 ELSE IF "removeMany" \in driverCaps
                 THEN driverCall(s1, [op |-> "removeMany", keys |-> r.toDelete])
                 ELSE driverRemoveEach(s1, r.toDelete, 1)
           s3 == invalidateEverything(s2)
           held == SelectSeq(rows, LAMBDA row : MirrorGet(r.mirror, row.key) = row.entry)
           s4 == emitReadyNow(emitEach([s3 EXCEPT !.exc = NoExc, !.ready = TRUE],
                                       [i \in DOMAIN held |-> held[i].key], 1))
       IN /\ mirror' = s4.mirror
          /\ allKeysCache' = forgetDeadList(s4.all)
          /\ prefixKeysCache' = forgetDeadLists(s4.pfx)
          /\ emitted' = s4.emt
          /\ delivered' = s4.dlv
          /\ observed' = s4.obs
          /\ returned' = Undefined
          /\ posted' = <<>>
          /\ driverOps' = s4.dops
          /\ driverWrite' = IF s4.dops # <<>> THEN "pending" ELSE driverWrite
          /\ readyP' = IF s2.exc = NoExc THEN "resolved" ELSE "rejected"
    /\ ready' = TRUE
    /\ raised' = NoExc
    /\ changed' = {}
    /\ UNCHANGED <<now, driverCaps, listenerVars, batchVars, asyncVars>>

\* The hydration after its awaits: rows are installed, expired rows removed
\* from the driver, the key-list caches invalidated, readiness signalled.
\* A driver that throws lands in the catch block.
HydrateInstall(rows, cleanup, dthrow) ==
    /\ ~ready
    /\ readyP = "pending"
    /\ batchDepth = 0
    /\ LET s0 == Begin(dthrow)
           r == installRows(s0.mirror, rows, 1, cleanup, <<>>)
           s1 == [s0 EXCEPT !.mirror = r.mirror]
           s2 == IF ~(cleanup /\ Len(r.toDelete) > 0) THEN s1
                 ELSE IF "removeMany" \in driverCaps
                 THEN driverCall(s1, [op |-> "removeMany", keys |-> r.toDelete])
                 ELSE driverRemoveEach(s1, r.toDelete, 1)
           s3 == invalidateEverything(s2)
           s4 == emitReadyNow([s3 EXCEPT !.exc = NoExc, !.ready = TRUE])
       IN /\ mirror' = s4.mirror
          /\ allKeysCache' = forgetDeadList(s4.all)
          /\ prefixKeysCache' = forgetDeadLists(s4.pfx)
          /\ emitted' = s4.emt
          /\ delivered' = s4.dlv
          /\ observed' = s4.obs
          /\ returned' = Undefined
          /\ posted' = <<>>
          /\ driverOps' = s4.dops
          /\ driverWrite' = IF s4.dops # <<>> THEN "pending" ELSE driverWrite
          /\ readyP' = IF s2.exc = NoExc THEN "resolved" ELSE "rejected"
    /\ ready' = TRUE
    /\ raised' = NoExc
    /\ changed' = {}
    /\ UNCHANGED <<now, driverCaps, listenerVars, batchVars, asyncVars>>

\* The catch block rejecting readyP without setting ready.
HydrateFailStaysUnready ==
    /\ ~ready
    /\ readyP = "pending"
    /\ batchDepth = 0
    /\ readyP' = "rejected"
    /\ emitted' = <<>>
    /\ delivered' = <<>>
    /\ observed' = <<>>
    /\ returned' = Undefined
    /\ posted' = <<>>
    /\ driverOps' = <<>>
    /\ raised' = NoExc
    /\ changed' = {}
    /\ UNCHANGED <<now, driverCaps, cacheVars, listenerVars, batchVars, asyncVars,
                   driverWrite, ready>>

\* The catch block resolving readyP instead of rejecting it.
HydrateFailResolves ==
    /\ ~ready
    /\ readyP = "pending"
    /\ batchDepth = 0
    /\ ready' = TRUE
    /\ readyP' = "resolved"
    /\ LET s == emitReadyNow([Begin(FALSE) EXCEPT !.ready = TRUE])
       IN /\ emitted' = s.emt
          /\ delivered' = s.dlv
          /\ observed' = s.obs
          /\ returned' = Undefined
          /\ posted' = <<>>
          /\ driverOps' = s.dops
    /\ raised' = NoExc
    /\ changed' = {}
    /\ UNCHANGED <<now, driverCaps, cacheVars, listenerVars, batchVars, asyncVars,
                   driverWrite>>

\* A failed hydration read installing the rows read before the failure.
HydrateFailKeepsRows ==
    /\ ~ready
    /\ readyP = "pending"
    /\ batchDepth = 0
    /\ ready' = TRUE
    /\ readyP' = "rejected"
    /\ \E rows \in HydrationRows :
           LET s == emitReadyNow([Begin(FALSE) EXCEPT
                        !.ready = TRUE,
                        !.mirror = installRows(mirror, rows, 1, FALSE, <<>>).mirror])
           IN /\ mirror' = s.mirror
              /\ emitted' = s.emt
              /\ delivered' = s.dlv
              /\ observed' = s.obs
              /\ returned' = Undefined
              /\ posted' = <<>>
              /\ driverOps' = s.dops
    /\ raised' = NoExc
    /\ changed' = {}
    /\ UNCHANGED <<now, driverCaps, allKeysCache, prefixKeysCache, listenerVars, batchVars,
                   asyncVars, driverWrite>>

\* driver.keys or a driver read failed: the catch block.
HydrateFail ==
    /\ ~ready
    /\ readyP = "pending"
    /\ batchDepth = 0
    /\ ready' = TRUE
    /\ readyP' = "rejected"
    /\ LET s == emitReadyNow([Begin(FALSE) EXCEPT !.ready = TRUE])
       IN /\ emitted' = s.emt
          /\ delivered' = s.dlv
          /\ observed' = s.obs
          /\ returned' = Undefined
          /\ posted' = <<>>
          /\ driverOps' = s.dops
    /\ raised' = NoExc
    /\ changed' = {}
    /\ UNCHANGED <<now, driverCaps, cacheVars, listenerVars, batchVars, asyncVars,
                   driverWrite>>

\* ------------------------------------------------------------ construction
DriverKinds == {{}, {"removeMany"}, {"getMany", "removeMany", "clearPrefix"}}

\* createCache starting the hydration whatever the hydrate option says.
CreatedAlwaysHydrates(caps, hydrate) ==
    /\ now = 0
    /\ driverCaps = caps
    /\ mirror = <<>>
    /\ allKeysCache = [keys |-> <<>>, valid |-> FALSE]
    /\ prefixKeysCache = <<>>
    /\ keyListeners = <<>>
    /\ prefixListeners = <<>>
    /\ allListeners = <<>>
    /\ readyListeners = <<>>
    /\ handles = {}
    /\ batchDepth = 0
    /\ pendingKeys = <<>>
    /\ pendingReadyEmit = FALSE
    /\ ready = FALSE
    /\ readyP = "pending"
    /\ inFlight = <<>>
    /\ fetches = <<>>
    /\ changed = {}
    /\ emitted = <<>>
    /\ delivered = <<>>
    /\ observed = <<>>
    /\ returned = Undefined
    /\ posted = <<>>
    /\ driverOps = <<>>
    /\ driverWrite = "none"
    /\ raised = NoExc

\* createCache({driver, hydrate}): the state when createCache returns.
Created(caps, hydrate) ==
    /\ now = 0
    /\ driverCaps = caps
    /\ mirror = <<>>
    /\ allKeysCache = [keys |-> <<>>, valid |-> FALSE]
    /\ prefixKeysCache = <<>>
    /\ keyListeners = <<>>
    /\ prefixListeners = <<>>
    /\ allListeners = <<>>
    /\ readyListeners = <<>>
    /\ handles = {}
    /\ batchDepth = 0
    /\ pendingKeys = <<>>
    /\ pendingReadyEmit = FALSE
    /\ ready = ~hydrate
    /\ readyP = IF hydrate THEN "pending" ELSE "resolved"
    /\ inFlight = <<>>
    /\ fetches = <<>>
    /\ changed = {}
    /\ emitted = <<>>
    /\ delivered = <<>>
    /\ observed = <<>>
    /\ returned = Undefined
    /\ posted = <<>>
    /\ driverOps = <<>>
    /\ driverWrite = "none"
    /\ raised = NoExc

\* ------------------------------------------------------------------- Spec
\* The synchronous API on a ready or hydrating instance, the clock and the
\* hydration; the driver's methods return promises.
Init == \E hydrate \in BOOLEAN : Created({"getMany", "removeMany", "clearPrefix"}, hydrate)

Next ==
    \/ \E k \in Keys : Get(k, FALSE)
    \/ \E k \in Keys : Has(k, FALSE)
    \/ \E k \in Keys : Meta(k, FALSE)
    \/ \E k \in Keys, t \in TtlArgs : Set(k, "v1", t, FALSE)
    \/ \E k \in Keys, t \in TtlArgs : Update(k, "v1", t, FALSE)
    \/ \E k \in Keys, t \in TtlArgs : Touch(k, t, FALSE)
    \/ \E k \in Keys : Remove(k, FALSE)
    \/ \E p \in Prefixes \cup {NoPrefix} : KeysOp(p, FALSE)
    \/ \E p \in Prefixes \cup {NoPrefix} : Clear(p, FALSE)
    \/ Tick
    \/ \E rows \in HydrationRows, c \in BOOLEAN : HydrateInstall(rows, c, FALSE)
    \/ HydrateFail

Spec == Init /\ [][Next]_vars


\* What get(key) and keys(prefix) return when they are called in this state.
GetValue(key) ==
    LET r == getEntry(Begin(FALSE), key)
    IN IF r.e = NoEntry THEN Undefined ELSE r.e.value

KeysValue(prefix) == getCachedKeys(Begin(FALSE), prefix).keys

NoDuplicates(q) == Cardinality(Range(q)) = Len(q)

\* ---------------------------------------------------------------- claim C1
\* C1: in every state reached by set, update, touch, remove, clear, get, has,
\* meta, keys, the clock and the hydration, keys(prefix) returns exactly the
\* keys of the mirror that are live now and start with prefix (all live keys
\* without a prefix), each once.
C1_KeysNeverStale ==
    \A p \in Prefixes \cup {NoPrefix} :
        /\ Range(KeysValue(p)) = LiveKeys(mirror, p)
        /\ NoDuplicates(KeysValue(p))

\* A state in which the global list and the list of prefix "a" are cached
\* as valid, one cached key has expired since and another is still live.
C1_Witness ==
    /\ allKeysCache.valid
    /\ <<"a">> \in DOMAIN prefixKeysCache
    /\ prefixKeysCache[<<"a">>].valid
    /\ \E k \in Range(allKeysCache.keys) : ~SpecLive(MirrorGet(mirror, k))
    /\ \E k \in Range(prefixKeysCache[<<"a">>].keys) : SpecLive(MirrorGet(mirror, k))

\* ---------------------------------------------------------------- claim C6
\* C6: an entry with ttlMs = T > 0 is returned by get while
\* now - createdAt < T; from now - createdAt >= T on get returns undefined,
\* the key leaves the mirror and keys() does not list it.  An entry without
\* ttlMs is returned by get at every clock value.
C6_TtlCorrect ==
    \A k \in Keys :
        LET e == MirrorGet(mirror, k)
            r == getEntry(Begin(FALSE), k)
        IN e # NoEntry =>
            /\ e.ttlMs = <<>> => GetValue(k) = e.value
            /\ (e.ttlMs # <<>> /\ e.ttlMs[1] > 0 /\ now - e.createdAt < e.ttlMs[1])
                   => GetValue(k) = e.value
            /\ (e.ttlMs # <<>> /\ e.ttlMs[1] > 0 /\ now - e.createdAt >= e.ttlMs[1])
                   => /\ GetValue(k) = Undefined
                      /\ ~MirrorHas(r.s.mirror, k)
                      /\ k \notin Range(getCachedKeys(r.s, NoPrefix).keys)
                      /\ k \notin Range(KeysValue(NoPrefix))

\* An entry set with a TTL has been evicted by a read after it expired (a
\* driver remove without a notification), while an entry without TTL that
\* is as old is still served.
C6_Witness ==
    /\ now = MaxNow
    /\ \E k \in Keys :
        /\ driverOps = <<[op |-> "remove", key |-> k]>>
        /\ emitted = <<>>
        /\ ~MirrorHas(mirror, k)
    /\ \E k \in Keys :
        /\ MirrorHas(mirror, k)
        /\ MirrorGet(mirror, k).ttlMs = <<>>
        /\ MirrorGet(mirror, k).createdAt = 0
        /\ GetValue(k) = "v1"


\* ------------------------------------------------------- SpecRoundTrip (C7)
\* set, get and remove with two values, on a hydrating or ready instance,
\* while the promises of the driver calls settle either way.
NextRoundTrip ==
    \/ \E k \in Keys : Get(k, FALSE)
    \/ \E k \in Keys, v \in Values, t \in {<<>>, <<2>>} : Set(k, v, t, FALSE)
    \/ \E k \in Keys : Remove(k, FALSE)
    \/ Tick
    \/ \E o \in {"ok", "failed"} : DriverSettle(o)
    \/ \E rows \in {r \in HydrationRows : Len(r) <= 1} : HydrateInstall(rows, FALSE, FALSE)
    \/ HydrateFail

SpecRoundTrip == Init /\ [][NextRoundTrip]_vars

\* C7: set(k, v, ttl) with ttl omitted or > 0 is followed by get(k) = v,
\* on a hydrating and on a ready instance; and when the promise of a driver
\* call settles, resolved or rejected, every get returns what it returned
\* before.
C7_RoundTrip ==
    [][/\ \A k \in Keys, v \in Values, t \in {<<>>, <<2>>} :
              Set(k, v, t, FALSE) => GetValue(k)' = v
       /\ \A o \in {"ok", "failed"} :
              DriverSettle(o) => \A k \in Keys : GetValue(k)' = GetValue(k)]_vars

\* On an instance that is still hydrating, set stored v2 over an entry of
\* another value, the driver write it triggered has failed, and get returns v2.
C7_Witness ==
    /\ ~ready
    /\ driverWrite = "failed"
    /\ \E k \in Keys :
        /\ Len(driverOps) = 1
        /\ driverOps[1].op = "set"
        /\ driverOps[1].key = k
        /\ driverOps[1].entry.value = "v2"
        /\ driverOps[1].entry.ttlMs = <<2>>
        /\ driverOps[1].entry.createdAt > 0
        /\ GetValue(k) = "v2"


\* ------------------------------------------------- SpecAsync (C2, C3, C4)
\* Overlapping getOrSetAsync calls, with and without force, whose fetchers
\* resolve, reject or throw at once, between removes and keys() calls.
InitAsync == Created({"getMany", "removeMany", "clearPrefix"}, FALSE)

NextAsync ==
    \/ \E k \in Keys, force \in BOOLEAN, fthrows \in BOOLEAN :
           GetOrSetAsync(k, <<>>, force, fthrows, FALSE)
    \/ \E i \in 1..MaxFetches, v \in Values : FetchResolve(i, v, FALSE)
    \/ \E i \in 1..MaxFetches : FetchReject(i)
    \/ \E k \in Keys : Remove(k, FALSE)
    \/ KeysOp(NoPrefix, FALSE)

SpecAsync == InitAsync /\ [][NextAsync]_vars

Unsettled(k) == {i \in 1..Len(fetches) : fetches[i].key = k /\ fetches[i].status = "pending"}
Invocations(fs, k) == {i \in 1..Len(fs) : fs[i].key = k}

\* C2: at every moment at most one fetcher invocation per key is unsettled,
\* and it is the one the in-flight map holds; while it is unsettled no call
\* for that key, forced or not, invokes the fetcher again, so overlapping
\* callers await the one fill and receive its one result.
C2_AtMostOneFetch ==
    /\ [](\A k \in Keys :
            /\ Cardinality(Unsettled(k)) <= 1
            /\ \A i \in Unsettled(k) : k \in DOMAIN inFlight /\ inFlight[k] = i)
    /\ [][\A k \in Keys :
            Unsettled(k) # {} => \A i \in Invocations(fetches', k) : i \in Invocations(fetches, k)]_vars

\* Two callers await the one unsettled fill of a key that also has a live
\* value (the second fill of that key).
C2_Witness ==
    \E k \in Keys :
        /\ \E i \in Unsettled(k) : fetches[i].waiters = 2
        /\ \E i \in Invocations(fetches, k) : fetches[i].status = "resolved"
        /\ MirrorHas(mirror, k)

\* C3 (as claimed): no settled fetch stays in the in-flight map.
C3_SettledFetchLeavesInFlight ==
    \A k \in DOMAIN inFlight : fetches[inFlight[k]].status = "pending"

\* C4: when the fetcher of an in-flight fill fails, or fails as the fill
\* starts, the fill is rejected for all the callers awaiting it and nothing
\* is stored: the mirror and the key-list caches are as they were, no driver
\* call is issued, no notification is delivered or queued.
C4_FailureStoresNothing ==
    [][\A i \in 1..Len(fetches') :
          (/\ fetches'[i].status = "rejected"
           /\ i \in 1..Len(fetches) => fetches[i].status = "pending")
          => /\ i \in 1..Len(fetches) => fetches'[i].waiters = fetches[i].waiters
             /\ fetches'[i].value = Undefined
             /\ mirror' = mirror
             /\ allKeysCache' = allKeysCache
             /\ prefixKeysCache' = prefixKeysCache
             /\ pendingKeys' = pendingKeys
             /\ driverOps' = <<>>
             /\ emitted' = <<>>
             /\ delivered' = <<>>]_vars

\* A fill awaited by two callers was rejected and left the in-flight map,
\* and the key still holds the value it had, listed by the valid key list.
C4_Witness ==
    \E i \in 1..Len(fetches) :
        /\ fetches[i].status = "rejected"
        /\ fetches[i].waiters = 2
        /\ fetches[i].key \notin DOMAIN inFlight
        /\ MirrorHas(mirror, fetches[i].key)
        /\ allKeysCache.valid
        /\ driverOps = <<>>


\* ---------------------------------------------------- SpecSyncThrow (C8)
\* The synchronous API over a driver whose methods may throw when they are
\* called, instead of returning a promise, or return a promise that rejects.
InitSyncThrow == Created({}, FALSE)

NextSyncThrow ==
    \/ \E k \in Keys, d \in BOOLEAN : Get(k, d)
    \/ \E k \in Keys, d \in BOOLEAN : Set(k, "v1", <<2>>, d)
    \/ \E k \in Keys, d \in BOOLEAN : Remove(k, d)
    \/ \E p \in {NoPrefix, <<"a">>}, d \in BOOLEAN : KeysOp(p, d)
    \/ \E d \in BOOLEAN : Clear(NoPrefix, d)
    \/ Tick
    \/ \E o \in {"ok", "failed"} : DriverSettle(o)

SpecSyncThrow == InitSyncThrow /\ [][NextSyncThrow]_vars

\* C8 (as claimed): a driver call that throws or rejects never reaches the
\* caller of the operation, and the operation completes its effects as one
\* unit: after it every key-list cache marked valid lists exactly the keys of
\* the mirror in its scope.
C8_DriverFailureContained ==
    /\ raised # "driver"
    /\ allKeysCache.valid => Range(allKeysCache.keys) = MirrorKeys(mirror)
    /\ \A p \in DOMAIN prefixKeysCache :
           prefixKeysCache[p].valid =>
               Range(prefixKeysCache[p].keys) = {k \in MirrorKeys(mirror) : StartsWith(k, p)}


\* -------------------------------------------------------- SpecBatch (C5)
\* Mutations and emit inside nested batches, with listeners of each kind.
InitBatch == Created({"getMany", "removeMany", "clearPrefix"}, FALSE)

NextBatch ==
    \/ SubscribeKey(<<"a">>, "f")
    \/ \E p \in Prefixes : SubscribePrefix(p, "f")
    \/ SubscribeAll("f")
    \/ \E k \in Keys : Set(k, "v1", <<>>, FALSE)
    \/ \E k \in Keys : Remove(k, FALSE)
    \/ \E k \in Keys : Touch(k, <<>>, FALSE)
    \/ Clear(NoPrefix, FALSE)
    \/ \E k \in Keys : Emit(k)
    \/ BatchBegin
    \/ \E fnThrows \in BOOLEAN : BatchEnd(fnThrows)

SpecBatch == InitBatch /\ [][NextBatch]_vars

Count(q, x) == Cardinality({i \in DOMAIN q : q[i] = x})

RECURSIVE Sum(_, _)
Sum(f, S) ==
    IF S = {} THEN 0
    ELSE LET x == CHOOSE y \in S : TRUE IN f[x] + Sum(f, S \ {x})

\* The number of listeners registered for a notification of key k.
Audience(k) ==
    (IF k \in DOMAIN keyListeners THEN Len(keyListeners[k]) ELSE 0)
    + Sum([i \in DOMAIN prefixListeners |-> Len(prefixListeners[i].cbs)],
          {i \in DOMAIN prefixListeners : StartsWith(k, prefixListeners[i].prefix)})
    + Len(allListeners)

\* C5: while a batch is open no listener is invoked; when the outermost
\* batch ends (fn returning or throwing) each key changed inside it is
\* notified exactly once, however often and at whatever depth it changed,
\* each of its listeners hears it once, and no other key is notified.
C5_BatchCoalesces ==
    /\ [](batchDepth > 0 => emitted = <<>> /\ delivered = <<>>)
    /\ [][batchDepth = 1 /\ batchDepth' = 0 =>
              /\ \A k \in Keys : Count(emitted', k) = IF k \in changed THEN 1 ELSE 0
              /\ \A k \in changed : \A i \in DOMAIN allListeners :
                     Count(delivered', [cb |-> allListeners[i], kind |-> "all",
                                        args |-> <<k>>]) = 1
              /\ Len(delivered') = Sum([k \in Keys |-> Audience(k)], changed)
              /\ pendingKeys' = <<>>
              /\ raised' \in {NoExc, "fn"}]_vars

\* The outermost batch has just ended after both keys changed in it and three
\* listeners heard of key "a".
C5_Witness ==
    /\ batchDepth = 0
    /\ changed = Keys
    /\ Len(emitted) = 2
    /\ Count([i \in DOMAIN delivered |-> delivered[i].args], <<>>) = 1
    /\ Len(delivered) = 5
    /\ raised = "fn"


\* The listeners a notification of key k is due to, in the order of delivery,
\* each with the arguments it is called with.
KeyRecords(k) ==
    IF k \in DOMAIN keyListeners
    THEN [i \in DOMAIN keyListeners[k] |->
             [cb |-> keyListeners[k][i], kind |-> "key", args |-> <<>>]]
    ELSE <<>>

RECURSIVE PrefixRecords(_, _)
PrefixRecords(k, i) ==
    IF i > Len(prefixListeners) THEN <<>>
    ELSE (IF StartsWith(k, prefixListeners[i].prefix)
          THEN [j \in DOMAIN prefixListeners[i].cbs |->
                   [cb |-> prefixListeners[i].cbs[j], kind |-> "prefix", args |-> <<k>>]]
          ELSE <<>>) \o PrefixRecords(k, i + 1)

AllRecords(k) ==
    [i \in DOMAIN allListeners |-> [cb |-> allListeners[i], kind |-> "all", args |-> <<k>>]]

DueRecords(k) == KeyRecords(k) \o PrefixRecords(k, 1) \o AllRecords(k)

RECURSIVE DueForEach(_, _)
DueForEach(ks, i) ==
    IF i > Len(ks) THEN <<>> ELSE DueRecords(ks[i]) \o DueForEach(ks, i + 1)

\* C10: the listener invocations of an operation are, for each key it
\* notified, the listeners of exactly that key (no argument), then the
\* listeners of each prefix the key starts with (the key as argument), then
\* the global listeners (the key as argument), and no others.
C10_DeliveryAudienceAndOrder == delivered = DueForEach(emitted, 1)

\* Key "ab" was notified with a key listener of "a" registered (not due),
\* both prefixes matching, and a global listener.
C10_Witness ==
    /\ emitted = << <<"a", "b">> >>
    /\ <<"a">> \in DOMAIN keyListeners
    /\ Len(prefixListeners) = 2
    /\ allListeners # <<>>
    /\ [i \in DOMAIN delivered |-> delivered[i].kind] = <<"prefix", "prefix", "all">>

\* ----------------------------------------------------- SpecListeners (C9)
\* Listeners that throw ("g") registered next to listeners that return, on
\* an instance that is hydrating when it is created.
InitListeners == Created({"getMany", "removeMany", "clearPrefix"}, TRUE)

NextListeners ==
    \/ SubscribeKey(<<"a">>, "g")
    \/ SubscribePrefix(<<"a">>, "f")
    \/ \E cb \in Cbs : SubscribeAll(cb)
    \/ \E cb \in Cbs : SubscribeReady(cb)
    \/ \E k \in Keys : Set(k, "v1", <<>>, FALSE)
    \/ \E k \in Keys : Remove(k, FALSE)
    \/ BatchBegin
    \/ BatchEnd(FALSE)
    \/ HydrateFail

SpecListeners == InitListeners /\ [][NextListeners]_vars

ReadyRecords ==
    [i \in DOMAIN readyListeners |-> [cb |-> readyListeners[i], kind |-> "ready", args |-> <<>>]]

\* C9: no listener's exception reaches the caller of an operation; every
\* listener due in a delivery is invoked, also after one that threw; the
\* end of the outermost batch notifies every key changed in it and leaves
\* the pending keys empty; a mutation outside a batch changes the mirror and
\* leaves batch depth and pending keys as they were.
C9_ListenerFailureIsolated ==
    /\ [](raised = NoExc)
    /\ [](\A i \in DOMAIN emitted : Range(DueRecords(emitted[i])) \subseteq Range(delivered))
    /\ [][/\ batchDepth = 1 /\ batchDepth' = 0 =>
                 Range(emitted') = changed /\ pendingKeys' = <<>>
          /\ batchDepth = 0 /\ batchDepth' = 0 /\ ready = ready' /\ emitted' # <<>> =>
                 /\ Len(emitted') = 1
                 /\ pendingKeys' = <<>>
                 /\ \A k \in Keys \ Range(emitted') : MirrorGet(mirror', k) = MirrorGet(mirror, k)
                 /\ \A k \in Range(emitted') :
                        \/ ~MirrorHas(mirror', k)
                        \/ MirrorGet(mirror', k) = [value |-> "v1", createdAt |-> now, ttlMs |-> <<>>]
          /\ ~ready /\ ready' => Range(ReadyRecords) \subseteq Range(delivered')]_vars

\* A batch that changed both keys has ended; the listener that throws was
\* invoked for the first key and a listener of the same set after it, and
\* the listeners were invoked again for the second key.
C9_Witness ==
    /\ batchDepth = 0
    /\ Len(emitted) = 2
    /\ raised = NoExc
    /\ \E i, j, m \in DOMAIN delivered :
           /\ i < j /\ j < m
           /\ delivered[i] = [cb |-> "g", kind |-> "all", args |-> <<emitted[1]>>]
           /\ delivered[j] = [cb |-> "f", kind |-> "all", args |-> <<emitted[1]>>]
           /\ delivered[m] = [cb |-> "g", kind |-> "all", args |-> <<emitted[2]>>]


\* ------------------------------------------------------- SpecNotify (C11)
\* Mutations outside any batch, with a listener of each kind registered.
InitNotify == Created({"getMany", "removeMany", "clearPrefix"}, FALSE)

NextNotify ==
    \/ SubscribeKey(<<"a">>, "f")
    \/ SubscribePrefix(<<"a">>, "f")
    \/ SubscribeAll("f")
    \/ \E k \in Keys, t \in TtlArgs : Set(k, "v1", t, FALSE)
    \/ \E k \in Keys : Update(k, "v2", <<>>, FALSE)
    \/ \E k \in Keys, t \in {<<>>, <<0>>} : Touch(k, t, FALSE)
    \/ \E k \in Keys : Remove(k, FALSE)
    \/ Tick

SpecNotify == InitNotify /\ [][NextNotify]_vars

\* The step notified key k once, to each listener due and to no other, and
\* every listener could already read the mirror the step leaves.
NotifiedOnce(k) ==
    /\ emitted' = <<k>>
    /\ delivered' = DueRecords(k)
    /\ Len(observed') = Len(delivered')
    /\ \A i \in DOMAIN observed' : observed'[i].mirror = mirror'

\* The mirror after a write of value v with ttlMs t to key k at this time.
Written(k, v, t) ==
    IF t # <<>> /\ t[1] <= 0 THEN ~MirrorHas(mirror', k)
    ELSE MirrorGet(mirror', k) = [value |-> v, createdAt |-> now, ttlMs |-> t]

\* C11: outside a batch, a set, update or remove of key k, and a touch of a
\* live key k, notifies k exactly once within the call, to each matching
\* listener, after the mirror holds the result of the mutation; a touch of a
\* key with no live entry changes nothing and notifies nothing.
C11_ImmediateNotification ==
    [][batchDepth = 0 =>
         \A k \in Keys :
            /\ \A t \in TtlArgs :
                  Set(k, "v1", t, FALSE) => NotifiedOnce(k) /\ Written(k, "v1", t)
            /\ Update(k, "v2", <<>>, FALSE) => NotifiedOnce(k) /\ Written(k, "v2", <<>>)
            /\ \A t \in {<<>>, <<0>>} :
                  Touch(k, t, FALSE) =>
                     IF SpecLive(MirrorGet(mirror, k))
                     THEN /\ NotifiedOnce(k)
                          /\ Written(k, MirrorGet(mirror, k).value,
                                     IF t = <<>> THEN MirrorGet(mirror, k).ttlMs ELSE t)
                     ELSE emitted' = <<>> /\ delivered' = <<>>
            /\ Remove(k, FALSE) => NotifiedOnce(k) /\ ~MirrorHas(mirror', k)]_vars

\* update replaced the value of key "ab" and its three listeners (prefix,
\* global; the key listener of "a" is not due) ran on the updated mirror.
C11_Witness ==
    /\ emitted = << <<"a", "b">> >>
    /\ <<"a">> \in DOMAIN keyListeners
    /\ Len(delivered) = 2
    /\ Len(observed) = 2
    /\ MirrorHas(observed[1].mirror, <<"a", "b">>)
    /\ MirrorGet(observed[1].mirror, <<"a", "b">>).value = "v2"
    /\ observed[1].mirror = mirror


\* ---------------------------------------------------------------- claim C12
\* C12: once isReady() returns true it returns true in every later state:
\* no operation, hydration outcome or driver completion takes ready back to
\* false.
C12_ReadyMonotonic == [][ready => ready']_vars

\* The instance is ready after a failed hydration, holds an entry written
\* since, and the driver write has failed.
C12_Witness ==
    /\ ready
    /\ readyP = "rejected"
    /\ driverWrite = "failed"
    /\ mirror # <<>>


\* ------------------------------------------------ SpecHydrationLive (C13)
\* An instance created with hydrate: true, used by its callers while the
\* hydration is under way.  Every driver call settles, so the awaits of the
\* hydration end: the hydration takes its success path or its catch block.
InitHydrating == Created({"getMany", "removeMany", "clearPrefix"}, TRUE)

HydrationSettles ==
    \/ \E rows \in {r \in HydrationRows : Len(r) <= 1}, c \in BOOLEAN :
           HydrateInstall(rows, c, FALSE)
    \/ HydrateFail

NextHydrationLive ==
    \/ \E k \in Keys : Get(k, FALSE)
    \/ \E k \in Keys : Set(k, "v1", <<>>, FALSE)
    \/ \E k \in Keys : Remove(k, FALSE)
    \/ KeysOp(NoPrefix, FALSE)
    \/ Tick
    \/ HydrationSettles

SpecHydrationLive ==
    InitHydrating /\ [][NextHydrationLive]_vars /\ WF_vars(HydrationSettles)

\* C13: an instance created with hydrate: true eventually has isReady() true
\* and its readyPromise() settled, whether the hydration succeeds or fails
\* and whatever its callers do meanwhile.
C13_EventuallyReady == <>(ready /\ readyP \in {"resolved", "rejected"})

\* The hydration failed after a caller had written an entry: the instance is
\* ready, the promise rejected, the entry still in the mirror.
C13_Witness ==
    /\ ready
    /\ readyP = "rejected"
    /\ emitted = <<>>
    /\ \E k \in Keys : MirrorHas(mirror, k) /\ MirrorGet(mirror, k).createdAt = 0
    /\ now > 0
    /\ allKeysCache.valid


\* ---------------------------------------------------------------- claim C14
\* C14: the step that ends the hydration settles readyP and sets ready:
\* rejected when driver.keys or a driver read failed, resolved otherwise;
\* a settled readyP never changes; after a failed hydration set, remove and
\* get work on the mirror.
C14_ReadyPromiseOutcome ==
    [][/\ (readyP = "pending" /\ readyP' # "pending") =>
              /\ ready'
              /\ readyP' = IF HydrateFail THEN "rejected" ELSE "resolved"
       /\ readyP # "pending" => readyP' = readyP
       /\ readyP = "rejected" =>
              \A k \in Keys :
                 /\ Set(k, "v1", <<>>, FALSE) => ready' /\ GetValue(k)' = "v1"
                 /\ Remove(k, FALSE) => ready' /\ GetValue(k)' = Undefined]_vars

\* After a failed hydration a set has just stored a value that get returns,
\* on an instance that is ready with its promise rejected.
C14_Witness ==
    /\ readyP = "rejected"
    /\ ready
    /\ \E k \in Keys :
           /\ emitted = <<k>>
           /\ Len(driverOps) = 1 /\ driverOps[1].op = "set"
           /\ GetValue(k) = "v1"


\* -------------------------------------------------------- SpecReady (C15)
\* Ready listeners subscribing and unsubscribing around the end of the
\* hydration, with batches before and after it.
NextReady ==
    \/ \E cb \in Cbs : SubscribeReady(cb)
    \/ \E cb \in Cbs : UnsubscribeReady(cb)
    \/ BatchBegin
    \/ BatchEnd(FALSE)
    \/ Tick
    \/ \E rows \in HydrationRows, c \in BOOLEAN : HydrateInstall(rows, c, FALSE)
    \/ HydrateFail

SpecReady == InitHydrating /\ [][NextReady]_vars

\* C15: ready listeners are invoked in one step only, the step in which
\* ready becomes true (a clock tick is no operation and keeps the record of
\* the last one); in it each ready listener registered at that moment
\* is invoked exactly once, and what it can read then is isReady() = true
\* and the mirror as the hydration leaves it, holding every live entry the
\* hydration read.
C15_ReadyFiresOnceAfterInstall ==
    [][/\ (now' = now /\ \E i \in DOMAIN delivered' : delivered'[i].kind = "ready")
              => ~ready /\ ready'
       /\ (~ready /\ ready') =>
              /\ delivered' = ReadyRecords
              /\ Len(observed') = Len(delivered')
              /\ \A i \in DOMAIN observed' :
                     observed'[i].ready /\ observed'[i].mirror = mirror'
       /\ \A rows \in HydrationRows, c \in BOOLEAN :
              HydrateInstall(rows, c, FALSE) =>
                  \A j \in DOMAIN rows, i \in DOMAIN observed' :
                      (rows[j].entry # NoEntry /\ SpecLive(rows[j].entry)) =>
                          MirrorGet(observed'[i].mirror, rows[j].key) = rows[j].entry]_vars

\* Two ready listeners were invoked by a hydration that installed two rows,
\* and each could read both entries and isReady() = true.
C15_Witness ==
    /\ Len(delivered) = 2
    /\ \A i \in DOMAIN delivered : delivered[i].kind = "ready"
    /\ Len(observed) = 2
    /\ \A i \in DOMAIN observed : observed[i].ready /\ Len(observed[i].mirror) = 2
    /\ readyP = "resolved"


\* ---------------------------------------------------- SpecNoHydrate (C16)
\* Instances created with hydrate: false over each kind of driver.
InitNoHydrate == \E caps \in DriverKinds : Created(caps, FALSE)

NextNoHydrate ==
    \/ \E k \in Keys : Get(k, FALSE)
    \/ \E k \in Keys, t \in {<<>>, <<2>>} : Set(k, "v1", t, FALSE)
    \/ \E k \in Keys : Remove(k, FALSE)
    \/ \E p \in Prefixes \cup {NoPrefix} : KeysOp(p, FALSE)
    \/ \E p \in Prefixes \cup {NoPrefix} : Clear(p, FALSE)
    \/ Tick

SpecNoHydrate == InitNoHydrate /\ [][NextNoHydrate]_vars

\* The hydration is under way: driver.keys() has been called and the reads
\* of the entries follow.
hydrating == ~ready /\ readyP = "pending"

\* The driver methods that read: keys, get, getMany.
DriverReadOps == {"keys", "get", "getMany"}

InitHydrate == \E caps \in DriverKinds : Created(caps, TRUE)

NextHydrate ==
    \/ \E rows \in HydrationRows, c \in BOOLEAN : HydrateInstall(rows, c, FALSE)
    \/ HydrateFail
    \/ \E k \in Keys : Get(k, FALSE)
    \/ \E k \in Keys : Has(k, FALSE)
    \/ \E k \in Keys : Meta(k, FALSE)
    \/ \E p \in Prefixes \cup {NoPrefix} : KeysOp(p, FALSE)
    \/ Tick

SpecHydrate == InitHydrate /\ [][NextHydrate]_vars

\* The rows of the driver that hold an entry, and whether it is live now.
LiveRow(row) == row.entry # NoEntry /\ SpecLive(row.entry)
ExpiredRow(row) == row.entry # NoEntry /\ ~SpecLive(row.entry)
RowKeys(rows) == [i \in DOMAIN rows |-> rows[i].key]

\* C17: right after a hydration that succeeded with no caller write before
\* it, with either cleanup setting, get returns the value of each entry of
\* the driver that is live and undefined for every other key, and
\* keys(prefix) lists exactly the live driver keys under the prefix; and as
\* long as nothing is written get never returns an expired entry.
C17_HydratedContent ==
    /\ [][\A rows \in HydrationRows, c \in BOOLEAN :
             HydrateInstall(rows, c, FALSE) =>
                 /\ \A k \in Keys :
                        GetValue(k)' =
                            IF \E j \in DOMAIN rows : rows[j].key = k /\ LiveRow(rows[j])
                            THEN (CHOOSE r \in Range(rows) : r.key = k).entry.value
                            ELSE Undefined
                 /\ \A p \in Prefixes \cup {NoPrefix} :
                        Range(KeysValue(p)') =
                            {r.key : r \in {x \in Range(rows) :
                                               LiveRow(x) /\ StartsWith(x.key, p)}}]_vars
    /\ [](\A k \in Keys : GetValue(k) # Undefined => SpecLive(MirrorGet(mirror, k)))

\* keys() was cached as the empty list while hydrating; the hydration then
\* installed one live and one expired entry without cleanup, and keys()
\* lists the live key only.
C17_Witness ==
    /\ ready
    /\ readyP = "resolved"
    /\ Len(mirror) = 2
    /\ driverOps = <<>>
    /\ allKeysCache = [keys |-> <<>>, valid |-> FALSE]
    /\ Len(KeysValue(NoPrefix)) = 1
    /\ \E k \in Keys : MirrorHas(mirror, k) /\ GetValue(k) = Undefined

\* The driver removals the hydration owes for the expired rows.
CleanupCalls(rows) ==
    LET dead == RowKeys(SelectSeq(rows, ExpiredRow))
    IN IF dead = <<>> THEN <<>>
       ELSE IF "removeMany" \in driverCaps THEN <<[op |-> "removeMany", keys |-> dead]>>
       ELSE [i \in DOMAIN dead |-> [op |-> "remove", key |-> dead[i]]]

\* C18: with cleanupExpiredOnHydrate the hydration issues one removeMany
\* for exactly the rows it found expired, or one remove for each of them
\* when the driver has no removeMany, and nothing when none is expired;
\* without it the hydration issues no driver call, and a later get, has or
\* meta of an expired key, or keys(), removes the expired entries it meets
\* from the driver.
C18_CleanupOnHydrate ==
    [][/\ \A rows \in HydrationRows :
             /\ HydrateInstall(rows, TRUE, FALSE) => driverOps' = CleanupCalls(rows)
             /\ HydrateInstall(rows, FALSE, FALSE) => driverOps' = <<>>
       /\ \A k \in Keys :
             (Get(k, FALSE) \/ Has(k, FALSE) \/ Meta(k, FALSE)) =>
                 driverOps' = IF MirrorHas(mirror, k) /\ ~SpecLive(MirrorGet(mirror, k))
                              THEN <<[op |-> "remove", key |-> k]>> ELSE <<>>
       /\ KeysOp(NoPrefix, FALSE) =>
             /\ \A i \in DOMAIN driverOps' : driverOps'[i].op = "remove"
             /\ {driverOps'[i].key : i \in DOMAIN driverOps'} =
                    {k \in MirrorKeys(mirror) : ~SpecLive(MirrorGet(mirror, k))}]_vars

\* A hydration with cleanup over a driver without removeMany found both
\* rows expired and issued one remove for each.
C18_Witness ==
    /\ ready
    /\ readyP = "resolved"
    /\ "removeMany" \notin driverCaps
    /\ mirror = <<>>
    /\ Len(driverOps) = 2
    /\ driverOps[1].op = "remove" /\ driverOps[2].op = "remove"
    /\ driverOps[1].key # driverOps[2].key


\* ------------------------------------------------ nested batches (C19, C20)
\* C19: the end of a batch lowers the depth by one; the end of a batch that
\* is nested in another delivers nothing and leaves the queued keys queued;
\* the end of the outermost batch delivers the keys queued at every level,
\* each once, empties the queue and leaves the depth at 0; and in between
\* nothing is delivered.
C19_BatchesNest ==
    /\ [][batchDepth' < batchDepth =>
              /\ batchDepth' = batchDepth - 1
              /\ batchDepth > 1 =>
                     /\ emitted' = <<>>
                     /\ delivered' = <<>>
                     /\ pendingKeys' = pendingKeys
              /\ batchDepth = 1 =>
                     /\ batchDepth' = 0
                     /\ emitted' = pendingKeys
                     /\ Range(pendingKeys) = changed
                     /\ pendingKeys' = <<>>]_vars
    /\ [][batchDepth > 0 /\ batchDepth' >= batchDepth =>
              /\ emitted' = <<>>
              /\ Range(pendingKeys) \subseteq Range(pendingKeys')]_vars

\* An inner batch has just ended by a throw with both keys queued: nothing
\* was delivered and the outer batch is still open.
C19_Witness ==
    /\ batchDepth = 1
    /\ raised = "fn"
    /\ Len(pendingKeys) = 2
    /\ emitted = <<>>
    /\ delivered = <<>>
    /\ allListeners # <<>>

\* C20: when fn throws, the depth is lowered by one all the same, the
\* exception reaches the caller of batch, and when the batch was the
\* outermost one every key queued before the throw is delivered and the
\* queue is left empty; a set or remove made afterwards outside any batch is
\* notified at once.
C20_BatchFnThrows ==
    [][/\ BatchEnd(TRUE) =>
              /\ batchDepth' = batchDepth - 1
              /\ raised' = "fn"
              /\ batchDepth = 1 =>
                     /\ emitted' = pendingKeys
                     /\ delivered' = DueForEach(pendingKeys, 1)
                     /\ pendingKeys' = <<>>
       /\ (batchDepth = 0 /\ raised = "fn") =>
              \A k \in Keys :
                  /\ Set(k, "v1", <<>>, FALSE) =>
                         emitted' = <<k>> /\ delivered' = DueRecords(k) /\ pendingKeys' = <<>>
                  /\ Remove(k, FALSE) =>
                         emitted' = <<k>> /\ delivered' = DueRecords(k) /\ pendingKeys' = <<>>]_vars

\* The outermost batch has just ended by a throw after one key changed in
\* it: the key was delivered to a listener and the queue is empty.
C20_Witness ==
    /\ batchDepth = 0
    /\ raised = "fn"
    /\ Cardinality(changed) = 1
    /\ Len(emitted) = 1
    /\ emitted[1] \in changed
    /\ delivered # <<>>
    /\ pendingKeys = <<>>


\* ------------------------------------------------ SpecClear (C21, C24)
\* clear with and without a prefix over a driver with removeMany, on mirrors
\* whose entries all carry a TTL and are live or expired, with valid and
\* invalid key-list caches, inside and outside a batch, with a global
\* listener.
InitClear == Created({"removeMany"}, FALSE)

NextClear ==
    \/ SubscribeAll("f")
    \/ \E k \in Keys : Set(k, "v1", <<2>>, FALSE)
    \/ \E p \in Prefixes \cup {NoPrefix} : KeysOp(p, FALSE)
    \/ \E p \in Prefixes \cup {NoPrefix} : Clear(p, FALSE)
    \/ Tick
    \/ BatchBegin
    \/ BatchEnd(FALSE)

SpecClear == InitClear /\ [][NextClear]_vars

\* The keys ks are notified, each once and nothing else: at once outside a
\* batch, queued in pendingKeys inside one.
NotifiedExactly(ks) ==
    IF batchDepth = 0
    THEN /\ \A k \in Keys : Count(emitted', k) = IF k \in ks THEN 1 ELSE 0
         /\ delivered' = DueForEach(emitted', 1)
         /\ pendingKeys' = <<>>
    ELSE /\ emitted' = <<>>
         /\ delivered' = <<>>
         /\ Range(pendingKeys') = Range(pendingKeys) \cup ks
         /\ NoDuplicates(pendingKeys')

\* C21: clear() leaves the mirror without any key and keys(p) empty for
\* every p, and notifies exactly the keys that were live when it was
\* called, each once; the entries that had expired are evicted too, without
\* a notification.
C21_ClearAll ==
    [][Clear(NoPrefix, FALSE) =>
           /\ mirror' = <<>>
           /\ \A p \in Prefixes \cup {NoPrefix} : KeysValue(p)' = <<>>
           /\ NotifiedExactly(LiveKeys(mirror, NoPrefix))]_vars

\* clear() has just evicted an expired key through the driver without a
\* notification and a live key with one, heard by the global listener.
C21_Witness ==
    /\ mirror = <<>>
    /\ Len(driverOps) = 2
    /\ driverOps[1].op = "remove"
    /\ Len(emitted) = 1
    /\ emitted[1] # driverOps[1].key
    /\ delivered = <<[cb |-> "f", kind |-> "all", args |-> emitted]>>

\* --------------------------------------------------------- clear(prefix)
\* The keys a driver call removes from a driver holding the keys of Keys.
RemovedBy(call) ==
    IF call.op = "remove" THEN {call.key}
    ELSE IF call.op = "removeMany" THEN Range(call.keys)
    ELSE IF call.op = "clearPrefix" THEN {k \in Keys : StartsWith(k, call.prefix)}
    ELSE {}

\* C22: clear(prefix) with a non-empty prefix leaves no key that starts
\* with prefix in the mirror and notifies exactly those of them that were
\* live, each once; every key that does not start with prefix keeps its
\* entry as it was, is not notified and is not removed from the driver.
C22_ClearPrefixFrame ==
    [][\A p \in Prefixes :
           Clear(p, FALSE) =>
               /\ \A k \in Keys :
                      IF StartsWith(k, p) THEN ~MirrorHas(mirror', k)
                      ELSE MirrorGet(mirror', k) = MirrorGet(mirror, k)
               /\ Range(emitted') = LiveKeys(mirror, p)
               /\ NoDuplicates(emitted')
               /\ \A i \in DOMAIN driverOps' :
                      \A k \in RemovedBy(driverOps'[i]) : StartsWith(k, p)]_vars

\* clear("ab") has just evicted the live key "ab" through a bulk call of
\* the driver and left the entry of "a", which does not start with "ab".
C22_Witness ==
    /\ emitted = << <<"a", "b">> >>
    /\ MirrorKeys(mirror) = {<<"a">>}
    /\ driverOps # <<>>
    /\ driverOps[Len(driverOps)].op # "remove"
    /\ <<"a", "b">> \in RemovedBy(driverOps[Len(driverOps)])
    /\ <<"a", "b">> \in DOMAIN prefixKeysCache
    /\ ~prefixKeysCache[<<"a", "b">>].valid

\* ---------------------------------------------------- SpecBulk (C23)
\* Engines over a driver with and without the optional bulk operations,
\* created hydrating or ready: set, clear, keys, the clock and the
\* hydration.
InitBulk == \E caps \in DriverKinds, hydrate \in BOOLEAN : Created(caps, hydrate)

NextBulk ==
    \/ \E k \in Keys, t \in {<<>>, <<2>>} : Set(k, "v1", t, FALSE)
    \/ \E p \in Prefixes \cup {NoPrefix} : Clear(p, FALSE)
    \/ KeysOp(NoPrefix, FALSE)
    \/ Tick
    \/ \E rows \in {r \in HydrationRows : Len(r) <= 1}, c \in BOOLEAN :
           HydrateInstall(rows, c, FALSE)
    \/ HydrateFail

SpecBulk == InitBulk /\ [][NextBulk]_vars

\* The sets of keys a driver may hold when the engine calls it.  The driver
\* is shared storage: it may hold keys the mirror does not (the instance was
\* created with hydrate: false, has not finished hydrating, or another
\* instance wrote them).
DriverContents == SUBSET Keys

\* What a memory driver holding the keys D holds after a call.
ApplyCall(D, call) ==
    IF call.op = "set" THEN D \cup {call.key}
    ELSE IF call.op = "remove" THEN D \ {call.key}
    ELSE IF call.op = "removeMany" THEN D \ Range(call.keys)
    ELSE IF call.op = "clearPrefix" THEN {k \in D : ~StartsWith(k, call.prefix)}
    ELSE D

RECURSIVE ApplyCalls(_, _, _)
ApplyCalls(D, calls, i) ==
    IF i > Len(calls) THEN D ELSE ApplyCalls(ApplyCall(D, calls[i]), calls, i + 1)

\* What the driver holds after the calls of an engine whose driver offers
\* only get, set, remove and keys: clear removes, key by key, the keys of
\* the mirror within the prefix, and the hydration the rows found expired.
PerKeyClear(D, prefix) == D \ {k \in MirrorKeys(mirror) : StartsWith(k, prefix)}
PerKeyCleanup(D, rows, cleanup) ==
    IF cleanup THEN D \ {r.key : r \in {x \in Range(rows) : ExpiredRow(x)}} ELSE D

\* C23: whatever the driver holds, the calls clear, clear(prefix) and the
\* hydration issue leave it holding what the per-key calls of an engine
\* without bulk operations would leave, whichever bulk operations the driver
\* offers.
C23_BulkEquivalent ==
    [][\A D \in DriverContents :
           /\ \A p \in Prefixes \cup {NoPrefix} :
                  Clear(p, FALSE) => ApplyCalls(D, driverOps', 1) = PerKeyClear(D, p)
           /\ \A rows \in HydrationRows, c \in BOOLEAN :
                  HydrateInstall(rows, c, FALSE) =>
                      ApplyCalls(D, driverOps', 1) = PerKeyCleanup(D, rows, c)]_vars


\* ------------------------------------------------------ SpecEvict (C24)
\* Reads, touch, update, keys and clear() on mirrors whose entries all carry
\* a TTL and are live or expired, inside and outside a batch, with a global
\* listener.
InitEvict == Created({"removeMany"}, FALSE)

NextEvict ==
    \/ SubscribeAll("f")
    \/ \E k \in Keys : Set(k, "v1", <<2>>, FALSE)
    \/ \E k \in Keys : Get(k, FALSE)
    \/ \E k \in Keys : Has(k, FALSE)
    \/ \E k \in Keys : Meta(k, FALSE)
    \/ \E k \in Keys : Touch(k, <<>>, FALSE)
    \/ \E k \in Keys : Update(k, "v1", <<2>>, FALSE)
    \/ \E p \in {NoPrefix, <<"a", "b">>} : KeysOp(p, FALSE)
    \/ Clear(NoPrefix, FALSE)
    \/ Tick
    \/ BatchBegin
    \/ BatchEnd(FALSE)

SpecEvict == InitEvict /\ [][NextEvict]_vars

\* The keys of the mirror under prefix whose entry has expired.
ExpiredKeys(m, prefix) ==
    {k \in MirrorKeys(m) : ~SpecLive(MirrorGet(m, k)) /\ StartsWith(k, prefix)}

\* No listener is invoked and nothing is queued.
Silent == emitted' = <<>> /\ delivered' = <<>> /\ pendingKeys' = pendingKeys

\* The keys ks are evicted by the step and nothing else changes: their
\* entries leave the mirror, one driver remove is issued for each, the
\* key-list caches covering them are invalid (but for the lists in own,
\* which a keys call has just rebuilt), and the listeners stay.
EvictedOnly(ks, own) ==
    /\ \A k \in Keys :
           IF k \in ks THEN ~MirrorHas(mirror', k)
           ELSE MirrorGet(mirror', k) = MirrorGet(mirror, k)
    /\ Len(driverOps') = Cardinality(ks)
    /\ {driverOps'[i] : i \in DOMAIN driverOps'} = {[op |-> "remove", key |-> k] : k \in ks}
    /\ ks # {} =>
           /\ NoPrefix \notin own => ~allKeysCache'.valid
           /\ \A p \in DOMAIN prefixKeysCache' \ own :
                  (\E k \in ks : StartsWith(k, p)) => ~prefixKeysCache'[p].valid
    /\ UNCHANGED listenerVars

\* C24: get, has, meta and touch of an expired key, and keys(p) meeting
\* expired keys, evict them (mirror entry deleted, one driver remove each,
\* covering key-list caches invalidated) and notify nobody, in a batch or
\* not; update of an expired key evicts it first and notifies once, for its
\* write, as for an absent key; clear() notifies the live keys only.
C24_PassiveEvictionSilent ==
    [][/\ \A k \in Keys :
              /\ (Get(k, FALSE) \/ Has(k, FALSE) \/ Meta(k, FALSE) \/ Touch(k, <<>>, FALSE)) =>
                     (k \in ExpiredKeys(mirror, NoPrefix) => Silent /\ EvictedOnly({k}, {}))
              /\ (Update(k, "v1", <<2>>, FALSE) /\ k \in ExpiredKeys(mirror, NoPrefix)) =>
                     /\ NotifiedExactly({k})
                     /\ driverOps' = <<[op |-> "remove", key |-> k],
                                       [op |-> "set", key |-> k,
                                        entry |-> makeEntry("v1", <<2>>)]>>
       /\ \A p \in {NoPrefix, <<"a", "b">>} :
              KeysOp(p, FALSE) => Silent /\ EvictedOnly(ExpiredKeys(mirror, p), {p})
       /\ Clear(NoPrefix, FALSE) =>
              /\ NotifiedExactly(LiveKeys(mirror, NoPrefix))
              /\ \A k \in ExpiredKeys(mirror, NoPrefix) :
                     \E i \in DOMAIN driverOps' : driverOps'[i] = [op |-> "remove", key |-> k]]_vars

\* Inside a batch with a key already queued and a listener registered, a
\* read has just evicted the other key, expired, through the driver and
\* queued nothing.
C24_Witness ==
    /\ batchDepth = 1
    /\ Len(pendingKeys) = 1
    /\ allListeners = <<"f">>
    /\ \E k \in Keys \ Range(pendingKeys) :
           /\ driverOps = <<[op |-> "remove", key |-> k]>>
           /\ ~MirrorHas(mirror, k)
    /\ emitted = <<>>
    /\ ~allKeysCache.valid


\* -------------------------------------------------------- SpecHas (C25)
\* Values a caller may store, undefined among them, read back by get and
\* has while the clock advances.
InitHas == Created({}, FALSE)

NextHas ==
    \/ \E k \in Keys, v \in {"v1", Undefined}, t \in {<<>>, <<2>>} : Set(k, v, t, FALSE)
    \/ \E k \in Keys : Get(k, FALSE)
    \/ \E k \in Keys : Has(k, FALSE)
    \/ \E k \in Keys : Remove(k, FALSE)
    \/ Tick

SpecHas == InitHas /\ [][NextHas]_vars

\* What has(key) returns when it is called in this state: !!getEntry(key).
HasValue(key) == getEntry(Begin(FALSE), key).e # NoEntry

\* C25: in every state has(k) is true exactly when get(k) is not undefined,
\* whatever value is stored under k.
C25_HasIsGetDefined ==
    \A k \in Keys : HasValue(k) = (GetValue(k) # Undefined)


\* -------------------------------------------------- SpecSetRemove (C26)
\* set with an omitted, zero or negative ttlMs and remove, on present and
\* absent keys, with valid and invalid key-list caches, inside and outside a
\* batch, with a global listener.
NonPositiveTtls == {<<0>>, <<-1>>}

InitSetRemove == Created({}, FALSE)

NextSetRemove ==
    \/ SubscribeAll("f")
    \/ \E k \in Keys, t \in {<<>>} \cup NonPositiveTtls : Set(k, "v1", t, FALSE)
    \/ \E k \in Keys : Remove(k, FALSE)
    \/ \E p \in Prefixes \cup {NoPrefix} : KeysOp(p, FALSE)
    \/ BatchBegin
    \/ BatchEnd(FALSE)

SpecSetRemove == InitSetRemove /\ [][NextSetRemove]_vars

\* C26: a step is set(k, v, ttlMs) with ttlMs <= 0 exactly when it is
\* remove(k): from the same state both leave the same mirror, caches, queue
\* and logs; k is absent afterwards, the driver call issued is remove(k),
\* the key-list caches covering k are invalid, and k is notified once.
C26_SetNonPositiveIsRemove ==
    [][\A k \in Keys, t \in NonPositiveTtls :
           /\ Set(k, "v1", t, FALSE) <=> Remove(k, FALSE)
           /\ Set(k, "v1", t, FALSE) =>
                  /\ ~MirrorHas(mirror', k)
                  /\ driverOps' = <<[op |-> "remove", key |-> k]>>
                  /\ ~allKeysCache'.valid
                  /\ \A p \in DOMAIN prefixKeysCache' :
                         IF StartsWith(k, p) THEN ~prefixKeysCache'[p].valid
                         ELSE prefixKeysCache'[p] = prefixKeysCache[p]
                  /\ NotifiedExactly({k})]_vars

\* "a" has just been taken out of a mirror that keeps "ab", by a driver
\* remove, with the cached list of prefix "a" invalidated and the global
\* listener told.
C26_Witness ==
    /\ batchDepth = 0
    /\ MirrorKeys(mirror) = {<<"a", "b">>}
    /\ driverOps = <<[op |-> "remove", key |-> <<"a">>]>>
    /\ emitted = << <<"a">> >>
    /\ delivered = <<[cb |-> "f", kind |-> "all", args |-> emitted]>>
    /\ <<"a">> \in DOMAIN prefixKeysCache
    /\ <<"a", "b">> \in DOMAIN prefixKeysCache
    /\ prefixKeysCache[<<"a", "b">>].valid


\* ----------------------------------------------------- SpecUpdate (C27)
\* update with a counting and a constant updater, on absent, live and
\* expired keys, with each kind of ttlMs; values are written by update only.
\* (prev) => prev === undefined ? "v1" : "v2", a two-step counter.
Increment == [x \in Values \cup {Undefined} |-> IF x = Undefined THEN "v1" ELSE "v2"]

\* () => "v1"
Restart == [x \in Values \cup {Undefined} |-> "v1"]

Updaters == {Increment, Restart}

InitUpdate == Created({}, FALSE)

NextUpdate ==
    \/ SubscribeKey(<<"a">>, "f")
    \/ \E k \in Keys, f \in Updaters, t \in TtlArgs : UpdateWith(k, f, t)
    \/ \E k \in Keys : Remove(k, FALSE)
    \/ Tick

SpecUpdate == InitUpdate /\ [][NextUpdate]_vars

\* C27: update(k, updater, ttlMs) stores updater(v), where v is what get(k)
\* returns in the state update is called in (undefined for an absent or
\* expired key), exactly as set(k, updater(v), ttlMs) stores it, notifies k
\* once and leaves the other keys alone; so an update made after another
\* starts from the value the first one wrote.
C27_UpdateAppliesUpdater ==
    [][\A k \in Keys, f \in Updaters, t \in TtlArgs :
           UpdateWith(k, f, t) =>
               /\ Written(k, f[GetValue(k)], t)
               /\ NotifiedOnce(k)
               /\ driverOps'[Len(driverOps')] =
                      IF t # <<>> /\ t[1] <= 0 THEN [op |-> "remove", key |-> k]
                      ELSE [op |-> "set", key |-> k,
                            entry |-> makeEntry(f[GetValue(k)], t)]
               /\ \A j \in Keys \ {k} : MirrorGet(mirror', j) = MirrorGet(mirror, j)
               /\ (t = <<>> \/ t[1] > 0) =>
                      /\ GetValue(k)' = f[GetValue(k)]
                      /\ f = Increment /\ GetValue(k) = "v1" => GetValue(k)' = "v2"]_vars

\* The counter of key "a" has just been stepped a second time: it holds
\* "v2", which only an update that read the value written by an earlier
\* update writes, and its listener was told.
C27_Witness ==
    /\ GetValue(<<"a">>) = "v2"
    /\ driverOps = <<[op |-> "set", key |-> <<"a">>, entry |-> makeEntry("v2", <<>>)]>>
    /\ emitted = << <<"a">> >>
    /\ delivered = <<[cb |-> "f", kind |-> "key", args |-> <<>>]>>


\* ------------------------------------------------ SpecTouch (C28, C29)
\* touch with every kind of ttlMs argument on absent, live and expired
\* keys, with and without a TTL, inside and outside a batch, with a global
\* listener.
\* The ttlMs arguments of touch: omitted (which the code cannot tell from an
\* explicit undefined: ttlMs === undefined), zero, negative, positive.
TouchArgs == {<<>>, <<0>>, <<-1>>, <<1>>}

InitTouch == Created({}, FALSE)

NextTouch ==
    \/ SubscribeAll("f")
    \/ \E k \in Keys, t \in {<<>>, <<2>>} : Set(k, "v1", t, FALSE)
    \/ \E k \in Keys, t \in TouchArgs : Touch(k, t, FALSE)
    \/ Tick
    \/ BatchBegin
    \/ BatchEnd(FALSE)

SpecTouch == InitTouch /\ [][NextTouch]_vars

\* C28: touch(k, ttlMs) of a live key, with ttlMs omitted or positive,
\* replaces the entry by one with the same value, createdAt = now and the
\* old ttlMs (omitted) or the new one (positive), persists it with a driver
\* set and notifies k once; touch of an absent or expired key, whatever
\* ttlMs, stores nothing, issues no driver set and notifies nobody; other
\* keys are never affected.
C28_TouchRefreshes ==
    [][\A k \in Keys, t \in TouchArgs :
           Touch(k, t, FALSE) =>
               LET e == MirrorGet(mirror, k)
                   ne == [value |-> e.value, createdAt |-> now,
                          ttlMs |-> IF t = <<>> THEN e.ttlMs ELSE t]
               IN /\ \A j \in Keys \ {k} : MirrorGet(mirror', j) = MirrorGet(mirror, j)
                  /\ (SpecLive(e) /\ (t = <<>> \/ t[1] > 0)) =>
                         /\ MirrorGet(mirror', k) = ne
                         /\ driverOps' = <<[op |-> "set", key |-> k, entry |-> ne]>>
                         /\ NotifiedExactly({k})
                  /\ ~SpecLive(e) =>
                         /\ ~MirrorHas(mirror', k)
                         /\ \A i \in DOMAIN driverOps' : driverOps'[i].op # "set"
                         /\ Silent
                  /\ e = NoEntry => mirror' = mirror /\ driverOps' = <<>>]_vars

\* touch("a", 1) has just rewritten a live entry of "a": same value,
\* createdAt at now, ttlMs replaced by 1, persisted and heard by the global
\* listener.
C28_Witness ==
    /\ now = 2
    /\ MirrorGet(mirror, <<"a">>) = [value |-> "v1", createdAt |-> 2, ttlMs |-> <<1>>]
    /\ driverOps = <<[op |-> "set", key |-> <<"a">>,
                      entry |-> [value |-> "v1", createdAt |-> 2, ttlMs |-> <<1>>]]>>
    /\ emitted = << <<"a">> >>
    /\ delivered = <<[cb |-> "f", kind |-> "all", args |-> emitted]>>

\* C29: for every live entry that has a positive ttlMs there is a touch
\* call after which the key is still present with the same value and has no
\* ttlMs.
C29_TouchCanClearTtl ==
    \A k \in Keys :
        LET e == MirrorGet(mirror, k)
        IN (SpecLive(e) /\ e.ttlMs # <<>> /\ e.ttlMs[1] > 0) =>
               \E t \in TouchArgs :
                   LET ne == MirrorGet(touch(Begin(FALSE), k, t).mirror, k)
                   IN ne # NoEntry /\ ne.value = e.value /\ ne.ttlMs = <<>>


\* ------------------------------------------- getOrSetAsync on a live key (C30)
\* C30: getOrSetAsync(k, fetcher) without force on a key whose get is not
\* undefined returns that value at once, starts no fetch, puts nothing in
\* inFlight and leaves the mirror and the driver alone; with force: true the
\* value is not returned: the call joins the fetch in flight for k when
\* there is one and starts a new one otherwise, the mirror still untouched.
C30_CachedUnlessForced ==
    [][\A k \in Keys :
           GetValue(k) # Undefined =>
               /\ (\E fthrows \in BOOLEAN : GetOrSetAsync(k, <<>>, FALSE, fthrows, FALSE)) =>
                      /\ returned' = GetValue(k)
                      /\ UNCHANGED <<fetches, inFlight, mirror>>
                      /\ driverOps' = <<>>
                      /\ emitted' = <<>>
               /\ (\E fthrows \in BOOLEAN : GetOrSetAsync(k, <<>>, TRUE, fthrows, FALSE)) =>
                      /\ returned' = Undefined
                      /\ mirror' = mirror
                      /\ IF k \in DOMAIN inFlight
                         THEN /\ inFlight' = inFlight
                              /\ fetches' = [fetches EXCEPT ![inFlight[k]].waiters = @ + 1]
                         ELSE /\ Len(fetches') = Len(fetches) + 1
                              /\ fetches'[Len(fetches')].key = k
                              /\ fetches'[Len(fetches')].waiters = 1
                              /\ inFlight'[k] = Len(fetches')
                              /\ \A i \in DOMAIN fetches : fetches'[i] = fetches[i]]_vars

\* A fetch stored "v1" under "a" and a later call without force has just
\* been answered with it: one fetcher invocation in all, nothing in flight.
C30_Witness ==
    /\ returned = "v1"
    /\ GetValue(<<"a">>) = "v1"
    /\ Len(fetches) = 1
    /\ fetches[1] = [key |-> <<"a">>, ttlMs |-> <<>>, waiters |-> 1, value |-> "v1",
                     status |-> "resolved"]
    /\ inFlight = <<>>
    /\ driverOps = <<>>


\* ------------------------------------------------ SpecSubscribe (C31, C37)
\* Listeners of every kind subscribed and unsubscribed, any unsubscribe
\* function called any number of times, next to writes that notify them.
InitSubscribe == Created({"getMany", "removeMany", "clearPrefix"}, FALSE)

NextSubscribe ==
    \/ \E cb \in Cbs : SubscribeKey(<<"a">>, cb)
    \/ \E cb \in Cbs : UnsubscribeKey(<<"a">>, cb)
    \/ \E cb \in Cbs : SubscribePrefix(<<"a">>, cb)
    \/ \E cb \in Cbs : UnsubscribePrefix(<<"a">>, cb)
    \/ \E cb \in Cbs : SubscribeAll(cb)
    \/ \E cb \in Cbs : UnsubscribeAll(cb)
    \/ SubscribeReady("f")
    \/ UnsubscribeReady("f")
    \/ Set(<<"a">>, "v1", <<>>, FALSE)

SpecSubscribe == InitSubscribe /\ [][NextSubscribe]_vars

\* C31: a call of an unsubscribe function raises nothing and leaves the
\* registries in a state that a further call of the same function does not
\* change; a call made while its callback is not registered removes nothing.
C31_UnsubscribeIdempotent ==
    [][/\ \A cb \in Cbs :
              UnsubscribeKey(<<"a">>, cb) =>
                  /\ raised' = NoExc
                  /\ keyUnsubscribe(keyListeners', <<"a">>, cb) = keyListeners'
                  /\ (<<"a">> \notin DOMAIN keyListeners \/ cb \notin Range(keyListeners[<<"a">>]))
                         => UNCHANGED listenerVars
       /\ \A cb \in Cbs :
              UnsubscribePrefix(<<"a">>, cb) =>
                  /\ raised' = NoExc
                  /\ prefixUnsubscribe(prefixListeners', <<"a">>, cb) = prefixListeners'
                  /\ (\A i \in DOMAIN prefixListeners :
                          prefixListeners[i].prefix = <<"a">> => cb \notin Range(prefixListeners[i].cbs))
                         => UNCHANGED listenerVars
       /\ \A cb \in Cbs :
              UnsubscribeAll(cb) =>
                  /\ raised' = NoExc
                  /\ SetDelete(allListeners', cb) = allListeners'
                  /\ cb \notin Range(allListeners) => UNCHANGED listenerVars
       /\ \A cb \in Cbs :
              UnsubscribeReady(cb) =>
                  /\ raised' = NoExc
                  /\ SetDelete(readyListeners', cb) = readyListeners'
                  /\ cb \notin Range(readyListeners) => UNCHANGED listenerVars]_vars

\* The unsubscribe function of "f" for key "a" exists and "f" is no longer
\* registered, while "g" still is for the same key and both kinds of
\* listener sets hold another callback.
C31_Witness ==
    /\ Handle("key", <<"a">>, "f") \in handles
    /\ <<"a">> \in DOMAIN keyListeners
    /\ keyListeners[<<"a">>] = <<"g">>
    /\ Handle("all", <<>>, "f") \in handles
    /\ allListeners = <<"g">>
    /\ Handle("ready", <<>>, "f") \in handles
    /\ readyListeners = <<>>

\* C37: an unsubscribe function removes only the registration of the
\* subscribe call that returned it.  A callback that is registered (the
\* unsubscribe function of its latest subscribe call has not been called) and
\* is subscribed once more to the same key, prefix or global set has two
\* registrations; after one call of one of the two unsubscribe functions the
\* callback is still registered.
C37_UnsubscribeOwnRegistrationOnly ==
    [][/\ \A cb \in Cbs :
              /\ <<"a">> \in DOMAIN keyListeners
              /\ cb \in Range(keyListeners[<<"a">>])
              /\ SubscribeKey(<<"a">>, cb)
              => LET kl == keyUnsubscribe(keyListeners', <<"a">>, cb)
                 IN <<"a">> \in DOMAIN kl /\ cb \in Range(kl[<<"a">>])
       /\ \A cb \in Cbs :
              /\ \E i \in DOMAIN prefixListeners :
                     prefixListeners[i].prefix = <<"a">> /\ cb \in Range(prefixListeners[i].cbs)
              /\ SubscribePrefix(<<"a">>, cb)
              => LET pl == prefixUnsubscribe(prefixListeners', <<"a">>, cb)
                 IN \E i \in DOMAIN pl : pl[i].prefix = <<"a">> /\ cb \in Range(pl[i].cbs)
       /\ \A cb \in Cbs :
              /\ cb \in Range(allListeners)
              /\ SubscribeAll(cb)
              => cb \in Range(SetDelete(allListeners', cb))]_vars


\* ------------------------------------------------------- SpecEmit (C32)
\* emit next to writes with and without TTL, key lists, a fetch in flight,
\* the clock, batches and a listener of each kind.
InitEmit == Created({"getMany", "removeMany", "clearPrefix"}, FALSE)

NextEmit ==
    \/ SubscribeKey(<<"a">>, "f")
    \/ SubscribePrefix(<<"a">>, "f")
    \/ SubscribeAll("f")
    \/ \E t \in {<<>>, <<2>>} : Set(<<"a">>, "v1", t, FALSE)
    \/ \E p \in {NoPrefix, <<"a">>} : KeysOp(p, FALSE)
    \/ GetOrSetAsync(<<"a", "b">>, <<>>, FALSE, FALSE, FALSE)
    \/ \E k \in Keys : Emit(k)
    \/ Tick
    \/ BatchBegin
    \/ BatchEnd(FALSE)

SpecEmit == InitEmit /\ [][NextEmit]_vars

\* C32: emit(k) notifies k as a write of k would: outside a batch the same
\* listeners receive the same calls in the same order, inside a batch k is
\* queued in the same way; the mirror, both kinds of key-list cache, the
\* in-flight map, the readiness and the registries stay as they were, no
\* driver method is called and nothing is raised.
C32_EmitNotifiesOnly ==
    [][\A k \in Keys :
          Emit(k) =>
              LET w == setInternal(Begin(FALSE), k, makeEntry("v1", <<>>))
              IN /\ emitted' = w.emt
                 /\ delivered' = w.dlv
                 /\ pendingKeys' = w.pend
                 /\ batchDepth = 0 => emitted' = <<k>> /\ delivered' = DueRecords(k)
                 /\ batchDepth > 0 => emitted' = <<>> /\ k \in Range(pendingKeys')
                 /\ UNCHANGED <<mirror, allKeysCache, prefixKeysCache, inFlight, fetches,
                                ready, readyP, batchDepth, pendingReadyEmit, listenerVars,
                                driverWrite>>
                 /\ driverOps' = <<>>
                 /\ raised' = NoExc]_vars

\* emit of a key whose entry has expired and is still listed in a valid
\* cached key list, with a fetch in flight: the listeners of the key were
\* called and the entry is still in the mirror.
C32_Witness ==
    /\ emitted = << <<"a">> >>
    /\ Len(delivered) = 3
    /\ driverOps = <<>>
    /\ MirrorHas(mirror, <<"a">>)
    /\ ~isAlive(MirrorGet(mirror, <<"a">>))
    /\ allKeysCache = [keys |-> << <<"a">> >>, valid |-> TRUE]
    /\ inFlight # <<>>


\* ------------------------------------------------------ SpecPrune (C33)
\* Three keys written in any order, with or without a TTL, removed and
\* written again, listed by keys() and keys("a") before and after the clock
\* makes some of them expire.
PruneKeys == {<<"a">>, <<"a", "b">>, <<"b">>}

InitPrune == Created({"getMany", "removeMany", "clearPrefix"}, FALSE)

NextPrune ==
    \/ \E k \in PruneKeys, t \in {<<>>, <<1>>} : Set(k, "v1", t, FALSE)
    \/ \E k \in PruneKeys : Remove(k, FALSE)
    \/ \E p \in {NoPrefix, <<"a">>} : KeysOp(p, FALSE)
    \/ Tick

SpecPrune == InitPrune /\ [][NextPrune]_vars

\* The list cached for prefix, when that cache is valid.
CachedList(prefix) ==
    IF prefix = NoPrefix THEN allKeysCache.keys ELSE prefixKeysCache[prefix].keys

CacheValid(prefix) ==
    IF prefix = NoPrefix THEN allKeysCache.valid
    ELSE prefix \in DOMAIN prefixKeysCache /\ prefixKeysCache[prefix].valid

\* C33: keys(prefix) served from a valid cached list returns that list
\* without the keys that have expired or left the mirror: the survivors in
\* the order they had, each once, and as many as there are survivors; the
\* expired keys leave the mirror and no other entry changes.
C33_PruneKeepsOrder ==
    [][\A p \in {NoPrefix, <<"a">>} :
          KeysOp(p, FALSE) /\ CacheValid(p) =>
              LET old == CachedList(p)
                  survives(k) == SpecLive(MirrorGet(mirror, k))
                  out == KeysValue(p)
              IN /\ out = SelectSeq(old, survives)
                 /\ NoDuplicates(out)
                 /\ Len(out) = Cardinality({k \in Range(old) : survives(k)})
                 /\ MirrorKeys(mirror') = MirrorKeys(mirror) \ {k \in Range(old) : ~survives(k)}
                 /\ \A k \in Range(out) : MirrorGet(mirror', k) = MirrorGet(mirror, k)
                 /\ out = old => CacheValid(p)' /\ CachedList(p)' = old]_vars

\* keys() has just dropped the first of three listed keys, expired, from a
\* valid list: the two others are live in the mirror, second written first.
C33_Witness ==
    /\ driverOps = <<[op |-> "remove", key |-> <<"a">>]>>
    /\ emitted = <<>>
    /\ ~allKeysCache.valid
    /\ \A p \in DOMAIN prefixKeysCache : ~prefixKeysCache[p].valid
    /\ Len(mirror) = 2
    /\ mirror[1].key = <<"b">>
    /\ mirror[2].key = <<"a", "b">>
    /\ isAlive(mirror[1].entry) /\ isAlive(mirror[2].entry)


\* ---------------------------------------------------------------- claim C36
\* C36: between two operations, on an instance that is ready or hydrating
\* and right after the hydration installed its rows, every key-list cache
\* marked valid lists each key of the mirror that falls in its scope once,
\* and no other key.
C36_ValidCachesMatchMirror ==
    /\ allKeysCache.valid =>
           /\ Range(allKeysCache.keys) = MirrorKeys(mirror)
           /\ NoDuplicates(allKeysCache.keys)
    /\ \A p \in DOMAIN prefixKeysCache :
           prefixKeysCache[p].valid =>
               /\ Range(prefixKeysCache[p].keys) = {k \in MirrorKeys(mirror) : StartsWith(k, p)}
               /\ NoDuplicates(prefixKeysCache[p].keys)

\* After a hydration that installed both keys, the global list and the list
\* of prefix "ab" are cached as valid; the global one holds both keys, one of
\* them expired since and still in the mirror.
C36_Witness ==
    /\ ready /\ readyP = "resolved"
    /\ allKeysCache.valid
    /\ Len(allKeysCache.keys) = 2
    /\ <<"a", "b">> \in DOMAIN prefixKeysCache
    /\ prefixKeysCache[<<"a", "b">>] = [keys |-> << <<"a", "b">> >>, valid |-> TRUE]
    /\ \E k \in Keys : MirrorGet(mirror, k).value = "v2" /\ ~isAlive(MirrorGet(mirror, k))


\* ---------------------------------------------------------------- claim C35
\* C35: a write made while the instance is hydrating survives the
\* hydration.  A key the mirror holds when the hydration installs its rows
\* was set by a caller (the mirror starts empty), and get returns the same
\* value for it once the instance is ready; a key whose removal was the last
\* call before the install is absent once the instance is ready; whatever
\* rows the driver returned.
C35_CallerWritesSurviveHydration ==
    [][\A rows \in HydrationRows, c \in BOOLEAN :
          HydrateInstall(rows, c, FALSE) =>
              \A k \in Keys :
                  /\ GetValue(k) # Undefined => GetValue(k)' = GetValue(k)
                  /\ (driverOps = <<[op |-> "remove", key |-> k]>> /\ emitted = <<k>>)
                         => GetValue(k)' = Undefined]_vars


\* ------------------------------------------- SpecHydratingWrites (C38, C40)
\* Callers subscribing, writing, removing and reading while the hydration
\* is under way and after it; the hydration installs any rows or fails.
\* Callers write "v1" with a TTL of 2, an entry no driver row holds.
InitHydratingWrites == \E caps \in {{}, {"getMany", "removeMany", "clearPrefix"}} : Created(caps, TRUE)

NextHydratingWrites ==
    \/ SubscribeKey(<<"a">>, "f")
    \/ SubscribePrefix(<<"a">>, "f")
    \/ SubscribeAll("f")
    \/ SubscribeReady("f")
    \/ \E k \in Keys : Set(k, "v1", <<2>>, FALSE)
    \/ \E k \in Keys : Remove(k, FALSE)
    \/ \E k \in Keys : Get(k, FALSE)
    \/ \E rows \in HydrationRows, c \in BOOLEAN : HydrateInstall(rows, c, FALSE)
    \/ HydrateFail
    \/ Tick

SpecHydratingWrites == InitHydratingWrites /\ [][NextHydratingWrites]_vars

\* The entry was written by a caller of this instance.
CallerEntry(e) == e.value = "v1" /\ e.ttlMs = <<2>>

\* C38: a hydration whose driver.keys or driver read fails installs nothing:
\* the step that makes the instance ready with a rejected readyPromise
\* leaves the mirror and the key-list caches as they were and calls no
\* driver method, and from then on the mirror holds entries written by
\* callers only.
C38_FailedHydrationInstallsNothing ==
    /\ [][HydrateFail =>
              /\ mirror' = mirror
              /\ UNCHANGED <<allKeysCache, prefixKeysCache>>
              /\ driverOps' = <<>>
              /\ ready' /\ readyP' = "rejected"]_vars
    /\ [](readyP = "rejected" =>
              \A i \in DOMAIN mirror : CallerEntry(mirror[i].entry))

\* The hydration failed on an instance whose mirror holds a caller's write
\* made while hydrating, and the ready listener was told.
C38_Witness ==
    /\ ready /\ readyP = "rejected"
    /\ Len(mirror) = 1
    /\ delivered = <<[cb |-> "f", kind |-> "ready", args |-> <<>>]>>

\* C40: the hydration installs its rows without notifying anybody of a
\* change.  In the step that installs them (the instance becomes ready and
\* readyPromise resolves) no key is emitted or queued, the only listeners
\* called are the ready listeners, each once, and the only driver calls are
\* removals of expired rows, never a set.
C40_HydrationNotifiesReadyOnly ==
    [][(~ready /\ ready' /\ readyP' = "resolved") =>
          /\ emitted' = <<>>
          /\ pendingKeys' = pendingKeys
          /\ delivered' = ReadyRecords
          /\ \A i \in DOMAIN driverOps' : driverOps'[i].op \in {"remove", "removeMany"}
          /\ \A k \in MirrorKeys(mirror') \ MirrorKeys(mirror) :
                 \A i \in DOMAIN driverOps' :
                     /\ driverOps'[i].op = "remove" => driverOps'[i].key # k
                     /\ driverOps'[i].op = "removeMany" => k \notin Range(driverOps'[i].keys)]_vars

\* The hydration has just installed both keys on an instance with a key, a
\* prefix, a global and a ready listener: the ready listener alone was
\* called.
C40_Witness ==
    /\ ready /\ readyP = "resolved"
    /\ Len(mirror) = 2
    /\ \A i \in DOMAIN mirror : ~CallerEntry(mirror[i].entry)
    /\ <<"a">> \in DOMAIN keyListeners
    /\ prefixListeners # <<>>
    /\ allListeners # <<>>
    /\ delivered = <<[cb |-> "f", kind |-> "ready", args |-> <<>>]>>
    /\ emitted = <<>>


\* -------------------------------------------------------- SpecFill (C39)
\* getOrSetAsync fills of key "a" that resolve with "v2" while callers set
\* "v1" and remove the key, before and after the fill starts, with a key
\* listener and the clock.
InitFill == Created({"getMany", "removeMany", "clearPrefix"}, FALSE)

NextFill ==
    \/ SubscribeKey(<<"a">>, "f")
    \/ GetOrSetAsync(<<"a">>, <<2>>, FALSE, FALSE, FALSE)
    \/ \E i \in 1..MaxFetches : FetchResolve(i, "v2", FALSE)
    \/ \E k \in Keys : Set(k, "v1", <<>>, FALSE)
    \/ Remove(<<"a">>, FALSE)
    \/ Tick

SpecFill == InitFill /\ [][NextFill]_vars

\* C39: a fill that resolves stores its value under its key with the ttlMs
\* of the call, whatever the key holds at that moment - a value a caller set
\* or nothing after a caller's removal since the fill started -, issues one
\* driver set, notifies the key once and changes no other key.
C39_FillStoresUnconditionally ==
    [][\A i \in 1..MaxFetches :
          FetchResolve(i, "v2", FALSE) =>
              LET k == fetches[i].key
              IN /\ MirrorGet(mirror', k) = makeEntry("v2", fetches[i].ttlMs)
                 /\ \A j \in Keys \ {k} : MirrorGet(mirror', j) = MirrorGet(mirror, j)
                 /\ driverOps' = <<[op |-> "set", key |-> k,
                                    entry |-> makeEntry("v2", fetches[i].ttlMs)]>>
                 /\ emitted' = <<k>>
                 /\ delivered' = DueRecords(k)
                 /\ k \notin DOMAIN inFlight']_vars

\* The only fill ever started has resolved at time 1 and its value replaced
\* the one a caller set for "a" at time 0 after the fill had started (the row
\* of "a" precedes the row "ab" was given at time 0, and a fill starts only
\* when its key holds nothing); the key listener was told.
C39_Witness ==
    /\ Len(fetches) = 1
    /\ fetches[1].status = "resolved"
    /\ Len(mirror) = 2
    /\ mirror[1] = [key |-> <<"a">>, entry |-> [value |-> "v2", createdAt |-> 1, ttlMs |-> <<2>>]]
    /\ mirror[2].key = <<"a", "b">>
    /\ mirror[2].entry.createdAt = 0
    /\ emitted = << <<"a">> >>
    /\ delivered = <<[cb |-> "f", kind |-> "key", args |-> <<>>]>>


\* ------------------------------------------- broadcast bridge (C34)
\* withBroadcastSync(cache, opts) in a browser: the channel is open, ns is
\* opts?.ns ?? "".
BridgeNs == ""

\* ev.data of a message event: null, or an object with t, ns and k, where
\* ns may be missing and k may be something else than a string.
NoMessage == [null |-> TRUE]
StringKey(key) == [type |-> "string", val |-> key]
BridgeMessages ==
    {NoMessage} \cup
    {[t |-> t, ns |-> n, k |-> k] :
         t \in {"cache:emit", "cache:other"},
         n \in {Undefined, BridgeNs, "other"},
         k \in {StringKey(key) : key \in Keys} \cup {[type |-> "number", val |-> <<"7">>]}}

\* The three tests of onMsg that let a message through.
absorbs(msg) ==
    /\ msg # NoMessage
    /\ msg.t = "cache:emit"
    /\ (IF msg.ns = Undefined THEN "" ELSE msg.ns) = BridgeNs
    /\ msg.k.type = "string"

\* publish: ch.postMessage({t: "cache:emit", ns, k: key})
publish(s, key) ==
    IF s.exc # NoExc THEN s
    ELSE [s EXCEPT !.post = Append(@, [t |-> "cache:emit", ns |-> BridgeNs,
                                       k |-> StringKey(key)])]

\* onMsg posting the key it absorbs back to the channel.
onMsgRebroadcasts(msg) ==
    /\ IF absorbs(msg)
       THEN Commit(publish(queueEmitKey(Begin(FALSE), msg.k.val), msg.k.val), {msg.k.val})
       ELSE Commit(Begin(FALSE), {})
    /\ UNCHANGED asyncVars

\* onMsg: a message event arrives from another tab.
onMsg(msg) ==
    /\ IF absorbs(msg)
       THEN Commit(queueEmitKey(Begin(FALSE), msg.k.val), {msg.k.val})
       ELSE Commit(Begin(FALSE), {})
    /\ UNCHANGED asyncVars

\* wrapped.set / wrapped.update / wrapped.remove: the call on the cache,
\* then publish(key).
WrappedSet(key, value, ttlMs) ==
    /\ Commit(publish(setInternal(Begin(FALSE), key, makeEntry(value, ttlMs)), key), {key})
    /\ UNCHANGED asyncVars

WrappedUpdate(key, updater, ttlMs) ==
    LET r == getEntry(Begin(FALSE), key)
        prev == IF r.e = NoEntry THEN Undefined ELSE r.e.value
    IN /\ Commit(publish(setInternal(r.s, key, makeEntry(updater[prev], ttlMs)), key), {key})
       /\ UNCHANGED asyncVars

WrappedRemove(key) ==
    /\ Commit(publish(setInternal(Begin(FALSE), key, NoEntry), key), {key})
    /\ UNCHANGED asyncVars

\* A tab writing through the wrapper and receiving messages of every shape
\* from other tabs, with a key and a global listener.
InitBridge == Created({"getMany", "removeMany", "clearPrefix"}, FALSE)

NextBridge ==
    \/ SubscribeKey(<<"a">>, "f")
    \/ SubscribeAll("f")
    \/ \E k \in Keys : WrappedSet(k, "v1", <<>>)
    \/ \E k \in Keys : WrappedUpdate(k, Increment, <<>>)
    \/ \E k \in Keys : WrappedRemove(k)
    \/ \E msg \in BridgeMessages : onMsg(msg)

SpecBridge == InitBridge /\ [][NextBridge]_vars

\* C34: a message event posts nothing to the channel, changes no entry and
\* calls no driver method; a message of type cache:emit in the bridge's
\* namespace with a string key notifies that key once, like emit(key), and
\* any other message notifies nobody.  A write through the wrapper posts
\* one cache:emit message for its key.
C34_AbsorbedNotRebroadcast ==
    [][/\ \A msg \in BridgeMessages :
              onMsg(msg) =>
                  /\ posted' = <<>>
                  /\ mirror' = mirror
                  /\ driverOps' = <<>>
                  /\ UNCHANGED <<allKeysCache, prefixKeysCache, inFlight, listenerVars>>
                  /\ IF /\ msg # NoMessage
                        /\ msg.t = "cache:emit"
                        /\ msg.ns \in {Undefined, BridgeNs}
                        /\ msg.k.type = "string"
                     THEN emitted' = <<msg.k.val>> /\ delivered' = DueRecords(msg.k.val)
                     ELSE emitted' = <<>> /\ delivered' = <<>>
       /\ \A k \in Keys :
              (WrappedSet(k, "v1", <<>>) \/ WrappedUpdate(k, Increment, <<>>) \/ WrappedRemove(k))
                  => posted' = <<[t |-> "cache:emit", ns |-> BridgeNs, k |-> StringKey(k)]>>]_vars

\* A message for key "a" has just been absorbed in a tab that holds both
\* keys: the key and the global listener were called, nothing was posted and
\* no driver method was called.
C34_Witness ==
    /\ emitted = << <<"a">> >>
    /\ Len(delivered) = 2
    /\ posted = <<>>
    /\ driverOps = <<>>
    /\ Len(mirror) = 2
====
